---- MODULE Spec2Model ----
(***************************************************************************)
(* Tile-keyed content-addressed image store of gordyf/imageencoder.         *)
(*                                                                         *)
(* Two stores implement the ImageStore interface: PebbleImageStore          *)
(* (lib/imagestore/storage.go, one ordered keyspace with "bucket:" key      *)
(* prefixes, exact-duplicate tiles only) and BoltImageStore                 *)
(* (lib/imagestore/delta.go, four buckets, similarity index and delta       *)
(* tiles).  The variable `store` says which constructor ran.               *)
(*                                                                         *)
(* Conventions.  Byte arrays that the code indexes ([]byte, []int8) are     *)
(* functions on 0..n-1 so that the index arithmetic is the code's own.      *)
(* Go strings and keys are sequences of byte values.  float64 values that   *)
(* are only compared are kept as exact integer numerators; the unit is      *)
(* stated at each definition.                                               *)
(***************************************************************************)
EXTENDS Integers, Sequences, FiniteSets, TLC

\* ------------------------------------------------------------------------
\* Bounds of the model
\* ------------------------------------------------------------------------

\* Config.TileSize used by the store under analysis (any positive int is
\* a valid configuration).
TileSize == 6

\* Number of StoreImage / DeleteImage / RetrieveImage / ListImages calls
\* in one behaviour.
MaxOps == 3

\* Cap on len(SimilarityMatcher.features).
MaxIndex == 3

\* Largest width and height, and largest tile size, of the rasters the
\* tiling functions are applied to on their own.
MaxDim == 4
MaxTile == 3

\* ------------------------------------------------------------------------
\* Program constants
\* ------------------------------------------------------------------------

\* DefaultConfig().SimilarityThreshold = 0.05, in hundredths.
SimilarityThreshold == 5
ThresholdDen == 100

\* StorageType values (iota constants); StorageDelta is the value the Bolt
\* store tags delta refs with.
StorageUnique == 0
StorageDuplicate == 1
StorageDelta == 2

\* Fixed-point scale of the feature distance: ComputeFeatureDistance is
\* held in units of 1/(10*Scale).
Scale == 10000

\* ------------------------------------------------------------------------
\* Small helpers
\* ------------------------------------------------------------------------

min(a, b) == IF a < b THEN a ELSE b

\* v itself.  TLC keeps a function constructor unevaluated and evaluates
\* its body again at every application; the comparison makes it build the
\* array once.
Evaluated(v) == IF v = v THEN v ELSE v

Abs(a) == IF a < 0 THEN 0 - a ELSE a

\* int(math.Ceil(float64(a) / float64(b))) for a >= 0, b > 0
CeilDiv(a, b) == (a + b - 1) \div b

\* uint8(v): truncation to the low 8 bits
Uint8(v) == v % 256

\* int8(b) for a byte b, and byte(d) for an int8 d
Int8OfByte(b) == IF b >= 128 THEN b - 256 ELSE b
ByteOfInt8(d) == IF d < 0 THEN d + 256 ELSE d

RECURSIVE SumRange(_, _, _)
\* sum of f[lo] .. f[hi - 1], by halves
SumRange(f, lo, hi) ==
    IF hi <= lo THEN 0
    ELSE IF hi = lo + 1 THEN f[lo]
    ELSE LET mid == (lo + hi) \div 2
         IN  SumRange(f, lo, mid) + SumRange(f, mid, hi)

\* sum of f[0] .. f[n-1]
SumTo(f, n) == SumRange(f, 0, n)

RECURSIVE SqrtSearch(_, _, _)
SqrtSearch(v, lo, hi) ==
    IF lo >= hi THEN lo
    ELSE LET mid == (lo + hi + 1) \div 2
         IN  IF mid * mid <= v THEN SqrtSearch(v, mid, hi)
             ELSE SqrtSearch(v, lo, mid - 1)

\* floor(math.Sqrt(v)) for 0 <= v < 2^31
ISqrt(v) == SqrtSearch(v, 0, 46340)

\* bytes.Compare(a, b) < 0 on byte strings
BytesLess(a, b) ==
    \/ \E i \in 1..min(Len(a), Len(b)) :
           /\ a[i] < b[i]
           /\ \A j \in 1..(i - 1) : a[j] = b[j]
    \/ /\ Len(a) < Len(b)
       /\ \A j \in 1..Len(a) : a[j] = b[j]

\* The keys of S in ascending byte order (the order Pebble and bbolt
\* iterate in).
RECURSIVE SortedKeys(_)
SortedKeys(S) ==
    IF S = {} THEN <<>>
    ELSE LET m == CHOOSE k \in S : \A o \in S \ {k} : BytesLess(k, o)
         IN  <<m>> \o SortedKeys(S \ {m})

\* ------------------------------------------------------------------------
\* Rasters and the image codec (store.go)
\* ------------------------------------------------------------------------

\* A decoded image.Image with bounds (0,0)-(Width,Height): Pix[y*Width+x]
\* is the color.RGBA at (x, y).
Pixel(r, g, b) == [R |-> r, G |-> g, B |-> b, A |-> 255]

Black == Pixel(0, 0, 0)

\* color.RGBA.RGBA(): the 16-bit channels, c | c<<8
RGBA16(c) == [R |-> c.R * 257, G |-> c.G * 257, B |-> c.B * 257, A |-> c.A * 257]

At(img, x, y) == img.Pix[y * img.Width + x]

\* One raster with a single pixel (px, py) of colour c on black.
SpotRaster(w, h, px, py, c) ==
    [Width |-> w, Height |-> h,
     Pix |-> [i \in 0..(w * h - 1) |-> IF i = py * w + px THEN c ELSE Black]]

BlackRaster(w, h) ==
    [Width |-> w, Height |-> h, Pix |-> [i \in 0..(w * h - 1) |-> Black]]

\* The rasters callers store.  RasterA is one black tile; RasterB and
\* RasterC differ from it in one red sample (by 128 and by 100);
\* RasterD is one pixel wider than a tile, so its second tile is one
\* black column and padding; RasterE is RasterD with a white pixel in
\* that column; RasterF is two tiles wide, the tile of RasterA followed by
\* the tile of RasterB.
RasterA == BlackRaster(TileSize, TileSize)
RasterB == SpotRaster(TileSize, TileSize, 0, 0, Pixel(128, 0, 0))
RasterC == SpotRaster(TileSize, TileSize, 0, 0, Pixel(100, 0, 0))
RasterD == BlackRaster(TileSize + 1, TileSize)
RasterE == SpotRaster(TileSize + 1, TileSize, TileSize, 0, Pixel(255, 255, 255))
RasterF == SpotRaster(2 * TileSize, TileSize, TileSize, 0, Pixel(128, 0, 0))

Rasters == {RasterA, RasterB, RasterC, RasterD, RasterE, RasterF}

\* A raster that is black but for the pixels at the indexes in spots
SpotsRaster(w, h, spots, c) ==
    [Width |-> w, Height |-> h,
     Pix |-> [i \in 0..(w * h - 1) |-> IF i \in spots THEN c ELSE Black]]

\* The number of candidates BestMatchWithPixelCheck asks
\* FindTopSimilarTiles for
TopCandidates == 5

\* The rasters stored around a Close and a fresh NewBoltImageStore.  A row
\* raster is one tile more than TopCandidates wide; each of its tiles has
\* one white pixel, at a place of its own, so the tiles have the same
\* features and are far from one another pixel by pixel.  RowForward and
\* RowReversed hold the same tiles in opposite orders.  QueryRaster(k) is
\* one tile, tile k of RowForward with its white pixel slightly yellow.
RowTiles == TopCandidates + 1
SpotAt(tile, place) == (place \div TileSize) * (RowTiles * TileSize) + tile * TileSize + (place % TileSize)
RowForward ==
    SpotsRaster(RowTiles * TileSize, TileSize,
                {SpotAt(k, k) : k \in 0..(RowTiles - 1)}, Pixel(255, 255, 255))
RowReversed ==
    SpotsRaster(RowTiles * TileSize, TileSize,
                {SpotAt(k, RowTiles - 1 - k) : k \in 0..(RowTiles - 1)}, Pixel(255, 255, 255))
QueryRaster(k) ==
    SpotRaster(TileSize, TileSize, k % TileSize, k \div TileSize, Pixel(255, 255, 200))

ReopenRasters == {RowForward, RowReversed} \cup {QueryRaster(k) : k \in 0..(RowTiles - 1)}

\* Every raster some specification hands to StoreImage
AllRasters == Rasters \cup ReopenRasters

\* A raster whose pixels all differ: the colour is a function of the
\* pixel's index and of seed.
GradientRaster(w, h, seed) ==
    [Width |-> w, Height |-> h,
     Pix |-> [i \in 0..(w * h - 1) |->
                 Pixel((i * 37 + seed) % 256, (i * 91 + 5 + seed) % 256,
                       (i * 53 + 200 + seed) % 256)]]

\* The rasters and tile sizes ExtractTiles and ReconstructImage are
\* applied to on their own: every size up to MaxDim x MaxDim, all black or
\* with distinct pixels, and every tile size up to MaxTile.
TilingRasters ==
    {BlackRaster(w, h) : w \in 1..MaxDim, h \in 1..MaxDim}
        \cup {GradientRaster(w, h, 11) : w \in 1..MaxDim, h \in 1..MaxDim}

TilingInputs ==
    {[kind |-> "raster", img |-> r, tileSize |-> t] : r \in TilingRasters, t \in 1..MaxTile}

\* Encoded image bytes handed to StoreImage: a PNG of a raster, or bytes
\* no decoder accepts.
EncodedPNG(img) == [format |-> "png", img |-> img]
NotAnImage == [format |-> "garbage"]

ImageInputs == {EncodedPNG(r) : r \in Rasters} \cup {NotAnImage}

\* decodeImageFromBytes: [err, img]
decodeImageFromBytes(data) ==
    IF data.format = "png" THEN [err |-> FALSE, img |-> data.img]
    ELSE [err |-> TRUE]

\* encodeImageToPNG
encodeImageToPNG(img) == EncodedPNG(img)

\* ------------------------------------------------------------------------
\* Tile identity (store.go)
\* ------------------------------------------------------------------------

\* extractTileData that fills the part of the window beyond (x1, y1) with
\* the nearest pixel of the raster instead of zero.
extractTileDataEdgeRepeated(img, x0, y0, x1, y1, tileSize) ==
    Evaluated([i \in 0..(tileSize * tileSize * 3 - 1) |->
        LET p == i \div 3
            srcX == min(x0 + (p % tileSize), x1 - 1)
            srcY == min(y0 + (p \div tileSize), y1 - 1)
            c == At(img, srcX, srcY)
        IN  CASE i % 3 = 0 -> c.R
              [] i % 3 = 1 -> c.G
              [] OTHER -> c.B])

\* extractTileData: RGB data of the tileSize x tileSize window at
\* (x0, y0), zero where the window leaves (x1, y1).
extractTileData(img, x0, y0, x1, y1, tileSize) ==
    Evaluated([i \in 0..(tileSize * tileSize * 3 - 1) |->
        LET p == i \div 3
            x == p % tileSize
            y == p \div tileSize
            srcX == x0 + x
            srcY == y0 + y
        IN  IF srcX < x1 /\ srcY < y1
            THEN LET c == RGBA16(At(img, srcX, srcY))
                 IN  CASE i % 3 = 0 -> Uint8(c.R \div 256)
                       [] i % 3 = 1 -> Uint8(c.G \div 256)
                       [] OTHER -> Uint8(c.B \div 256)
            ELSE 0])

\* Tile (x, y) window of img
TileWindow(img, tileX, tileY, tileSize) ==
    LET x0 == tileX * tileSize
        y0 == tileY * tileSize
        x1 == min(x0 + tileSize, img.Width)
        y1 == min(y0 + tileSize, img.Height)
    IN  extractTileData(img, x0, y0, x1, y1, tileSize)

\* Every tile byte sequence the input rasters contain.
TileUniverse ==
    UNION {{TileWindow(r, tx, ty, TileSize) :
               tx \in 0..(CeilDiv(r.Width, TileSize) - 1),
               ty \in 0..(CeilDiv(r.Height, TileSize) - 1)} : r \in AllRasters}

\* Every tile byte sequence of the rasters of TilingInputs
TilingTileUniverse ==
    UNION {{TileWindow(in.img, tx, ty, in.tileSize) :
               tx \in 0..(CeilDiv(in.img.Width, in.tileSize) - 1),
               ty \in 0..(CeilDiv(in.img.Height, in.tileSize) - 1)} : in \in TilingInputs}

RECURSIVE SetToSeq(_)
SetToSeq(S) ==
    IF S = {} THEN <<>>
    ELSE LET e == CHOOSE e \in S : TRUE IN <<e>> \o SetToSeq(S \ {e})

\* The enumeration is taken by halves over the byte sum of the sequences,
\* so that its depth does not grow with the number of tiles.
TileBucket(data) == SumTo(data, Cardinality(DOMAIN data)) % 64

RECURSIVE SetToSeqByBucket(_, _, _)
SetToSeqByBucket(S, lo, hi) ==
    IF S = {} THEN <<>>
    ELSE IF lo = hi THEN SetToSeq(S)
    ELSE LET mid == (lo + hi) \div 2
         IN  SetToSeqByBucket({e \in S : TileBucket(e) <= mid}, lo, mid)
             \o SetToSeqByBucket({e \in S : TileBucket(e) > mid}, mid + 1, hi)

TileNumbering == SetToSeqByBucket(TileUniverse \cup TilingTileUniverse, 0, 63)

\* ComputeTileHash: sha256.Sum256(data), a 32-byte digest.  SHA-256 is
\* taken to be collision-free: distinct byte sequences get distinct
\* digests (here the digest spells the sequence's number).
ComputeTileHash(data) ==
    LET n == CHOOSE k \in 1..Len(TileNumbering) : TileNumbering[k] = data
    IN  Evaluated([i \in 0..31 |-> (n * (2 * i + 29)) % 256])

HexDigit(v) == IF v < 10 THEN 48 + v ELSE 87 + v

\* TileHash.String(): fmt.Sprintf("%x", h[:])
HashString(h) ==
    Evaluated([k \in 1..64 |-> HexDigit(IF k % 2 = 1 THEN h[(k - 1) \div 2] \div 16
                                        ELSE h[(k - 1) \div 2] % 16)])

\* GenerateTileID
GenerateTileID(hash) == HashString(hash)

\* ExtractTiles that names a tile after its place in the grid instead of
\* its bytes: the ID is the hex form of a digest of the tile's number.
ExtractTilesNamedByPosition(img, tileSize) ==
    LET tilesX == CeilDiv(img.Width, tileSize)
        tilesY == CeilDiv(img.Height, tileSize)
        tileAt(k) ==
            LET tileData == TileWindow(img, (k - 1) % tilesX, (k - 1) \div tilesX, tileSize)
            IN  [X |-> (k - 1) % tilesX, Y |-> (k - 1) \div tilesX,
                 ID |-> HashString([i \in 0..31 |-> (k * 7 + i) % 256]),
                 Hash |-> ComputeTileHash(tileData), Data |-> tileData]
        all == Evaluated([k \in 1..(tilesX * tilesY) |-> tileAt(k)])
    IN  [tiles |-> Evaluated([k \in 1..(tilesX * tilesY) |->
                       [ID |-> all[k].ID, Hash |-> all[k].Hash, Data |-> all[k].Data]]),
         tileRefs |-> Evaluated([k \in 1..(tilesX * tilesY) |->
                       [X |-> all[k].X, Y |-> all[k].Y, TileID |-> all[k].ID,
                        StorageType |-> StorageUnique]])]

\* ExtractTiles with the grid counted in whole tiles only (width / tileSize
\* rounded down): a partial last column or row is dropped.
ExtractTilesWholeOnly(img, tileSize) ==
    LET tilesX == img.Width \div tileSize
        tilesY == img.Height \div tileSize
        tileAt(k) ==
            LET tileX == (k - 1) % tilesX
                tileY == (k - 1) \div tilesX
                tileData == TileWindow(img, tileX, tileY, tileSize)
                hash == ComputeTileHash(tileData)
            IN  [X |-> tileX, Y |-> tileY, ID |-> GenerateTileID(hash),
                 Hash |-> hash, Data |-> tileData]
        all == Evaluated([k \in 1..(tilesX * tilesY) |-> tileAt(k)])
    IN  [tiles |-> Evaluated([k \in 1..(tilesX * tilesY) |->
                       [ID |-> all[k].ID, Hash |-> all[k].Hash, Data |-> all[k].Data]]),
         tileRefs |-> Evaluated([k \in 1..(tilesX * tilesY) |->
                       [X |-> all[k].X, Y |-> all[k].Y, TileID |-> all[k].ID,
                        StorageType |-> StorageUnique]])]

\* ExtractTiles: the tiles and their refs in row-major order.
ExtractTiles(img, tileSize) ==
    LET width == img.Width
        height == img.Height
        tilesX == CeilDiv(width, tileSize)
        tilesY == CeilDiv(height, tileSize)
        tileAt(k) ==
            LET tileX == (k - 1) % tilesX
                tileY == (k - 1) \div tilesX
                tileData == TileWindow(img, tileX, tileY, tileSize)
                hash == ComputeTileHash(tileData)
            IN  [X |-> tileX, Y |-> tileY, ID |-> GenerateTileID(hash),
                 Hash |-> hash, Data |-> tileData]
        all == Evaluated([k \in 1..(tilesX * tilesY) |-> tileAt(k)])
    IN  [tiles |-> Evaluated([k \in 1..(tilesX * tilesY) |->
                       [ID |-> all[k].ID, Hash |-> all[k].Hash, Data |-> all[k].Data]]),
         tileRefs |-> Evaluated([k \in 1..(tilesX * tilesY) |->
                       [X |-> all[k].X, Y |-> all[k].Y, TileID |-> all[k].ID,
                        StorageType |-> StorageUnique]])]

\* ExtractTiles(img, TileSize) of every input raster, computed once
ExtractedTiles == Evaluated([img \in AllRasters |-> ExtractTiles(img, TileSize)])

\* placeTileData that reads the tile column by column: pixel (x, y) of
\* the window is taken from position (y, x) of the tile.
placeTileDataTransposed(img, tileData, offsetX, offsetY, tileSize, imgWidth, imgHeight) ==
    IF Cardinality(DOMAIN tileData) # tileSize * tileSize * 3
    THEN [err |-> TRUE, img |-> img]
    ELSE
    [err |-> FALSE,
     img |-> [img EXCEPT !.Pix =
         Evaluated([p \in DOMAIN img.Pix |->
             LET x == (p % img.Width) - offsetX
                 y == (p \div img.Width) - offsetY
             IN  IF x >= 0 /\ x < tileSize /\ y >= 0 /\ y < tileSize
                 THEN LET i == (x * tileSize + y) * 3
                      IN  Pixel(tileData[i], tileData[i + 1], tileData[i + 2])
                 ELSE img.Pix[p]])]]

\* placeTileData that does not stop at the right edge of the window: the
\* last column of the tile is repeated to the edge of the image
placeTileDataWide(img, tileData, offsetX, offsetY, tileSize, imgWidth, imgHeight) ==
    IF Cardinality(DOMAIN tileData) # tileSize * tileSize * 3
    THEN [err |-> TRUE, img |-> img]
    ELSE [err |-> FALSE,
          img |-> [img EXCEPT !.Pix =
              Evaluated([p \in DOMAIN img.Pix |->
                  LET x == (p % img.Width) - offsetX
                      y == (p \div img.Width) - offsetY
                  IN  IF x >= 0 /\ y >= 0 /\ y < tileSize
                      THEN LET i == (y * tileSize + min(x, tileSize - 1)) * 3
                           IN  Pixel(tileData[i], tileData[i + 1], tileData[i + 2])
                      ELSE img.Pix[p]])]]

\* placeTileData: img with the in-bounds window of tileData written at
\* (offsetX, offsetY); an error when the data has the wrong size.
placeTileData(img, tileData, offsetX, offsetY, tileSize, imgWidth, imgHeight) ==
    IF Cardinality(DOMAIN tileData) # tileSize * tileSize * 3
    THEN [err |-> TRUE, img |-> img]
    ELSE [err |-> FALSE,
          img |-> [img EXCEPT !.Pix =
              Evaluated([p \in DOMAIN img.Pix |->
                  LET imgX == p % img.Width
                      imgY == p \div img.Width
                      x == imgX - offsetX
                      y == imgY - offsetY
                  IN  IF /\ x >= 0 /\ x < tileSize /\ y >= 0 /\ y < tileSize
                         /\ imgX < imgWidth /\ imgY < imgHeight
                      THEN LET i == (y * tileSize + x) * 3
                           IN  Pixel(tileData[i], tileData[i + 1], tileData[i + 2])
                      ELSE img.Pix[p]])]]

\* image.NewRGBA(image.Rect(0, 0, w, h)): all channels zero
NewRGBA(w, h) ==
    [Width |-> w, Height |-> h,
     Pix |-> Evaluated([i \in 0..(w * h - 1) |-> [R |-> 0, G |-> 0, B |-> 0, A |-> 0]])]

RECURSIVE PlaceRefsSkipMissing(_, _, _, _, _)
\* PlaceRefs that leaves the window of a tile it cannot fetch unfilled and
\* goes on
PlaceRefsSkipMissing(img, storedImage, tileSize, getTile, k) ==
    IF k > Len(storedImage.TileRefs) THEN [err |-> FALSE, img |-> img]
    ELSE IF getTile[k].err
    THEN PlaceRefsSkipMissing(img, storedImage, tileSize, getTile, k + 1)
    ELSE LET ref == storedImage.TileRefs[k]
             placed == placeTileData(img, getTile[k].data, ref.X * tileSize,
                                     ref.Y * tileSize, tileSize,
                                     storedImage.Width, storedImage.Height)
         IN  IF placed.err THEN [err |-> TRUE]
             ELSE PlaceRefsSkipMissing(placed.img, storedImage, tileSize, getTile, k + 1)

RECURSIVE PlaceRefs(_, _, _, _, _)
\* The loop of ReconstructImage over refs k..len: getTile[k] is what
\* getTileData returned for the k-th ref.
PlaceRefs(img, storedImage, tileSize, getTile, k) ==
    IF k > Len(storedImage.TileRefs) THEN [err |-> FALSE, img |-> img]
    ELSE IF getTile[k].err THEN [err |-> TRUE]
    ELSE LET ref == storedImage.TileRefs[k]
             placed == placeTileData(img, getTile[k].data, ref.X * tileSize,
                                     ref.Y * tileSize, tileSize,
                                     storedImage.Width, storedImage.Height)
         IN  IF placed.err THEN [err |-> TRUE]
             ELSE PlaceRefs(placed.img, storedImage, tileSize, getTile, k + 1)

\* ReconstructImage
ReconstructImage(storedImage, tileSize, getTile) ==
    PlaceRefs(NewRGBA(storedImage.Width, storedImage.Height), storedImage,
              tileSize, getTile, 1)
\* ------------------------------------------------------------------------
\* Delta codec (delta.go, first part)
\* ------------------------------------------------------------------------

ByteLen(data) == Cardinality(DOMAIN data)

\* The lengths gzip may compress a delta to (4-byte header included): one
\* that passes the 25%-savings test of StoreImage and one that does not.
\* compress/gzip itself is not computed here; a call is given the length
\* as an input.
GzipLens == {24, (TileSize * TileSize * 3 * 3) \div 4}

\* compressDelta: a uint32 length header and the gzip stream of the int8
\* values cast to bytes; Size is len() of the result.
compressDelta(delta, gz) ==
    [Length |-> ByteLen(delta),
     Gzip |-> Evaluated([i \in DOMAIN delta |-> ByteOfInt8(delta[i])]),
     Size |-> gz]

\* decompressDelta without the comparison of the decompressed length with
\* the length header
decompressDeltaNoLengthCheck(compressed) ==
    [err |-> FALSE,
     delta |-> Evaluated([i \in DOMAIN compressed.Gzip |-> Int8OfByte(compressed.Gzip[i])])]

\* decompressDelta: [err, delta]
decompressDelta(compressed) ==
    IF ByteLen(compressed.Gzip) # compressed.Length THEN [err |-> TRUE]
    ELSE [err |-> FALSE,
          delta |-> Evaluated([i \in DOMAIN compressed.Gzip |->
                                  Int8OfByte(compressed.Gzip[i])])]

\* A clamp to the range [-64, 63] (seven bits) in place of ClampInt8
ClampInt7(diff) == IF diff > 63 THEN 63 ELSE IF diff < -64 THEN -64 ELSE diff

\* int8(diff) without the clamp: the difference truncated to its low eight
\* bits
TruncateInt8(diff) == Int8OfByte(diff % 256)

\* The clamp of ComputeDelta to the int8 range
ClampInt8(diff) == IF diff > 127 THEN 127 ELSE IF diff < -128 THEN -128 ELSE diff

\* The clamp of ApplyDelta to the byte range
ClampByte(value) == IF value > 255 THEN 255 ELSE IF value < 0 THEN 0 ELSE value

\* ComputeDelta: [err, data]
ComputeDelta(newTile, baseTile, tileSize, gz) ==
    IF ByteLen(newTile) # ByteLen(baseTile) THEN [err |-> TRUE]
    ELSE IF ByteLen(newTile) # tileSize * tileSize * 3 THEN [err |-> TRUE]
    ELSE [err |-> FALSE,
          data |-> compressDelta(
              Evaluated([i \in DOMAIN newTile |-> ClampInt8(newTile[i] - baseTile[i])]),
              gz)]

\* ApplyDelta: [err, data]
ApplyDelta(baseTile, deltaData, tileSize) ==
    LET expectedSize == tileSize * tileSize * 3
        d == decompressDelta(deltaData)
    IN  IF ByteLen(baseTile) # expectedSize THEN [err |-> TRUE]
        ELSE IF d.err THEN [err |-> TRUE]
        ELSE IF ByteLen(d.delta) # expectedSize THEN [err |-> TRUE]
        ELSE [err |-> FALSE,
              data |-> Evaluated([i \in 0..(expectedSize - 1) |->
                                     ClampByte(baseTile[i] + d.delta[i])])]

\* maxDiff of ComputePerceptualDistance: 255.0 * 255.0 * 3.0
MaxDiff == 195075

\* ComputePerceptualDistance: [err, distance].  distance is the sum of
\* squared differences; the float the code returns is
\* sqrt(distance / (tileSize*tileSize*MaxDiff)).
ComputePerceptualDistance(tile1, tile2, tileSize) ==
    IF ByteLen(tile1) # ByteLen(tile2) THEN [err |-> TRUE]
    ELSE IF ByteLen(tile1) # tileSize * tileSize * 3 THEN [err |-> TRUE]
    ELSE [err |-> FALSE,
          distance |-> SumTo(Evaluated([i \in DOMAIN tile1 |->
                                 (tile1[i] - tile2[i]) * (tile1[i] - tile2[i])]),
                             ByteLen(tile1))]

\* pixelDistance <= threshold, for a threshold in hundredths
PixelWithin(distance, threshold, tileSize) ==
    distance <= (threshold * threshold * tileSize * tileSize * MaxDiff)
                    \div (ThresholdDen * ThresholdDen)

\* ------------------------------------------------------------------------
\* Tile features and the similarity matcher (delta.go, second part)
\* ------------------------------------------------------------------------

NumPixels == TileSize * TileSize

\* The body of ExtractTileFeatures: [err, features].  The float fields are
\* kept as numerators: ColorHistogram[i] and AvgRed/Green/Blue in units of
\* 1/numPixels, AvgBrightness in units of 1/(3*numPixels), Contrast in
\* units of 1/3.
TileFeatures(tileID, tileData, tileSize) ==
    IF ByteLen(tileData) # tileSize * tileSize * 3 THEN [err |-> TRUE]
    ELSE
    LET numPixels == tileSize * tileSize
        r == Evaluated([i \in 0..(numPixels - 1) |-> tileData[i * 3]])
        g == Evaluated([i \in 0..(numPixels - 1) |-> tileData[i * 3 + 1]])
        b == Evaluated([i \in 0..(numPixels - 1) |-> tileData[i * 3 + 2]])
        bin(v) == min(v \div 64, 3)
        histIndex == Evaluated([i \in 0..(numPixels - 1) |->
                         bin(r[i]) * 16 + bin(g[i]) * 4 + bin(b[i])])
        brightness3 == {r[i] + g[i] + b[i] : i \in 0..(numPixels - 1)}
        minBrightness3 ==
            CHOOSE m \in brightness3 \cup {765} :
                \A o \in brightness3 \cup {765} : m <= o
        maxBrightness3 ==
            CHOOSE m \in brightness3 \cup {0} :
                \A o \in brightness3 \cup {0} : m >= o
        totalR == SumTo(r, numPixels)
        totalG == SumTo(g, numPixels)
        totalB == SumTo(b, numPixels)
    IN  [err |-> FALSE,
         features |->
           [TileID |-> tileID,
            ColorHistogram |->
                Evaluated([k \in 0..63 |->
                    Cardinality({i \in 0..(numPixels - 1) : histIndex[i] = k})]),
            AvgBrightness |-> totalR + totalG + totalB,
            AvgRed |-> totalR,
            AvgGreen |-> totalG,
            AvgBlue |-> totalB,
            Contrast |-> maxBrightness3 - minBrightness3]]

\* TileFeatures of every tile of the input rasters, computed once
ExtractedFeatures == Evaluated([t \in TileUniverse |-> TileFeatures(<<>>, t, TileSize)])

\* ExtractTileFeatures
ExtractTileFeatures(tileID, tileData, tileSize) ==
    IF tileSize = TileSize /\ tileData \in TileUniverse
    THEN [ExtractedFeatures[tileData] EXCEPT !.features.TileID = tileID]
    ELSE TileFeatures(tileID, tileData, tileSize)

\* ComputeFeatureDistance, in units of 1/(10*Scale), each term rounded
\* down.
ComputeFeatureDistance(f1, f2) ==
    LET histTerm == Evaluated([i \in 0..63 |->
            LET sum == f1.ColorHistogram[i] + f2.ColorHistogram[i]
                diff == f1.ColorHistogram[i] - f2.ColorHistogram[i]
            IN  IF sum > 0 THEN (diff * diff * Scale) \div sum ELSE 0])
        histDistance == SumTo(histTerm, 64) \div (2 * NumPixels)
        avgRedDiff == f1.AvgRed - f2.AvgRed
        avgGreenDiff == f1.AvgGreen - f2.AvgGreen
        avgBlueDiff == f1.AvgBlue - f2.AvgBlue
        avgBrightnessDiff == f1.AvgBrightness - f2.AvgBrightness
        colorDistance ==
            (ISqrt(avgRedDiff * avgRedDiff + avgGreenDiff * avgGreenDiff
                   + avgBlueDiff * avgBlueDiff) * Scale) \div (NumPixels * 255)
        contrastDiff == f1.Contrast - f2.Contrast
    IN  4 * histDistance + 4 * colorDistance
        + (Abs(avgBrightnessDiff) * Scale) \div (3 * NumPixels * 255)
        + (Abs(contrastDiff) * Scale) \div (3 * 255)

\* featureDistance > threshold, for a threshold in hundredths
FeatureBeyond(distance, threshold) ==
    distance * ThresholdDen > threshold * 10 * Scale

\* SimilarityMatcher.AddTile: the index with the tile's features appended
AddTile(features, tileID, tileData, tileSize) ==
    LET f == ExtractTileFeatures(tileID, tileData, tileSize)
    IN  IF f.err THEN features ELSE Append(features, f.features)

RECURSIVE InsertByDistance(_, _)
\* sorted with e inserted after every entry that is not farther
InsertByDistance(sorted, e) ==
    IF sorted = <<>> THEN <<e>>
    ELSE IF e.distance < Head(sorted).distance THEN <<e>> \o sorted
    ELSE <<Head(sorted)>> \o InsertByDistance(Tail(sorted), e)

RECURSIVE SortByDistance(_, _)
\* sort.Slice by distance ascending (an insertion sort for the short
\* slices of the model): entries k.. of similarities inserted in turn
SortByDistance(similarities, k) ==
    IF k = 0 THEN <<>>
    ELSE InsertByDistance(SortByDistance(similarities, k - 1), similarities[k])

\* SimilarityMatcher.FindTopSimilarTiles: [err, candidates], candidates a
\* sequence of [tileID, distance]
FindTopSimilarTiles(features, tileData, tileSize, topN) ==
    IF Len(features) = 0 THEN [err |-> TRUE]
    ELSE LET q == ExtractTileFeatures(<<>>, tileData, tileSize)
         IN  IF q.err THEN [err |-> TRUE]
             ELSE LET similarities ==
                          [i \in 1..Len(features) |->
                              [tileID |-> features[i].TileID,
                               distance |-> ComputeFeatureDistance(q.features, features[i])]]
                      sorted == SortByDistance(similarities, Len(similarities))
                  IN  [err |-> FALSE,
                       candidates |-> SubSeq(sorted, 1, min(topN, Len(sorted)))]

\* The toolchains the module builds with: sort.Slice is pdqsort_func from
\* Go 1.19 on and quickSort_func before.  Both sort a slice of at most 12
\* entries by insertion; quickSort_func first makes a shell pass with gap 6.
GoBuilds == {"pdqsort", "quicksort"}

RECURSIVE ShellPass(_, _)
\* quickSort_func's pass with gap 6 from entry i on: entry i is swapped
\* with entry i - 6 when it is nearer
ShellPass(s, i) ==
    IF i > Len(s) THEN s
    ELSE ShellPass(IF s[i].distance < s[i - 6].distance
                   THEN [s EXCEPT ![i] = s[i - 6], ![i - 6] = s[i]]
                   ELSE s, i + 1)

\* sort.Slice(similarities, less by distance) of a slice of at most 12
\* entries, as the build sorts it
SortSlice(similarities, build) ==
    IF build = "quicksort"
    THEN SortByDistance(ShellPass(similarities, 7), Len(similarities))
    ELSE SortByDistance(similarities, Len(similarities))

\* SimilarityMatcher.FindTopSimilarTiles as the build runs it
FindTopSimilarTilesBuilt(features, tileData, tileSize, topN, build) ==
    IF Len(features) = 0 THEN [err |-> TRUE]
    ELSE LET q == ExtractTileFeatures(<<>>, tileData, tileSize)
         IN  IF q.err THEN [err |-> TRUE]
             ELSE LET similarities ==
                          [i \in 1..Len(features) |->
                              [tileID |-> features[i].TileID,
                               distance |-> ComputeFeatureDistance(q.features, features[i])]]
                      sorted == SortSlice(similarities, build)
                  IN  [err |-> FALSE,
                       candidates |-> SubSeq(sorted, 1, min(topN, Len(sorted)))]

\* No pixel distance seen yet: math.Inf(1)
Inf == -1

RECURSIVE PixelCheckLoopAbort(_, _, _, _, _, _, _)
\* PixelCheckLoop that ends the scan at a candidate whose fetch fails
PixelCheckLoopAbort(candidates, i, best, tileData, tileSize, featureThreshold, getTileData) ==
    IF i > Len(candidates) THEN best
    ELSE IF FeatureBeyond(candidates[i].distance, featureThreshold) THEN best
    ELSE LET candidateData == getTileData[candidates[i].tileID]
             pd == ComputePerceptualDistance(tileData, candidateData.data, tileSize)
         IN  IF candidateData.err THEN best
             ELSE PixelCheckLoopAbort(candidates, i + 1,
                      IF pd.err THEN best
                      ELSE IF best.distance = Inf \/ pd.distance < best.distance
                           THEN [tileID |-> candidates[i].tileID, distance |-> pd.distance]
                           ELSE best,
                      tileData, tileSize, featureThreshold, getTileData)

RECURSIVE PixelCheckLoop(_, _, _, _, _, _, _)
\* The candidate loop of BestMatchWithPixelCheck from candidate i on:
\* [tileID, distance] of the best candidate so far.
PixelCheckLoop(candidates, i, best, tileData, tileSize, featureThreshold, getTileData) ==
    IF i > Len(candidates) THEN best
    ELSE IF FeatureBeyond(candidates[i].distance, featureThreshold) THEN best
    ELSE LET candidateData == getTileData[candidates[i].tileID]
             pd == ComputePerceptualDistance(tileData, candidateData.data, tileSize)
             next == IF candidateData.err THEN best
                     ELSE IF pd.err THEN best
                     ELSE IF best.distance = Inf \/ pd.distance < best.distance
                          THEN [tileID |-> candidates[i].tileID, distance |-> pd.distance]
                          ELSE best
         IN  PixelCheckLoop(candidates, i + 1, next, tileData, tileSize,
                            featureThreshold, getTileData)

\* SimilarityMatcher.BestMatchWithPixelCheck: [err, found, tileID].
\* getTileData maps a tile ID to what the callback returns, [err, data].
BestMatchWithPixelCheck(features, tileData, tileSize, featureThreshold, pixelThreshold, getTileData) ==
    LET top == FindTopSimilarTiles(features, tileData, tileSize, TopCandidates)
    IN  IF top.err THEN [err |-> TRUE, found |-> FALSE]
        ELSE LET best == PixelCheckLoop(top.candidates, 1,
                                        [tileID |-> <<>>, distance |-> Inf],
                                        tileData, tileSize, featureThreshold, getTileData)
             IN  IF /\ best.distance # Inf
                    /\ PixelWithin(best.distance, pixelThreshold, tileSize)
                    /\ best.tileID # <<>>
                 THEN [err |-> FALSE, found |-> TRUE, tileID |-> best.tileID]
                 ELSE [err |-> FALSE, found |-> FALSE]

\* SimilarityMatcher.BestMatch, as StoreImage calls it: the pixel-verified
\* best match with both thresholds set to Config.SimilarityThreshold.
BestMatch(features, tileData, tileSize, getTileData) ==
    BestMatchWithPixelCheck(features, tileData, tileSize, SimilarityThreshold,
                            SimilarityThreshold, getTileData)
\* ------------------------------------------------------------------------
\* State
\* ------------------------------------------------------------------------

VARIABLES
    store,        \* "pebble" (NewPebbleImageStore) or "bolt" (NewBoltImageStore)
    enableDelta,  \* Config.EnableDeltaTiles
    pebble,       \* PebbleImageStore.db: committed key -> value
    bolt,         \* BoltImageStore.db: committed bucket -> (key -> value)
    features,     \* BoltImageStore.similarityMatcher.features
    last,         \* the last call of the ImageStore interface and its result
    stored,       \* history: id -> raster of the last successful StoreImage
                  \* of an id that has not been deleted since
    succeeded,    \* history: rasters some StoreImage call stored successfully
    deleted,      \* history: ids deleted successfully and not stored again since
    nops          \* number of calls made

vars == <<store, enableDelta, pebble, bolt, features, last, stored, succeeded, deleted,
          nops>>

\* Image ids callers pass: "a" and the one-byte string "\xff".
ImageIDs == {<<97>>, <<255>>}

\* Injected persistence failures of one StoreImage call: none, the
\* Set/Put of the k-th tile, the Set/Put of the manifest, the commit.
Faults ==
    {[op |-> "none", k |-> 0], [op |-> "tile", k |-> 1], [op |-> "tile", k |-> 2],
     [op |-> "meta", k |-> 0], [op |-> "commit", k |-> 0]}

NoFault == [op |-> "none", k |-> 0]

\* A map with one entry set (batch.Set, Bucket.Put)
Put(m, key, value) == [k \in (DOMAIN m) \cup {key} |-> IF k = key THEN value ELSE m[k]]

\* A map with one entry removed (db.Delete, Bucket.Delete)
Del(m, key) == [k \in (DOMAIN m) \ {key} |-> m[k]]

EmptyMap == [k \in {} |-> 0]

\* json.Marshal of a string: bytes that are no valid UTF-8 (here: every
\* byte >= 0x80, as the ids are single bytes) become U+FFFD.
RECURSIVE JSONString(_)
JSONString(str) ==
    IF str = <<>> THEN <<>>
    ELSE (IF Head(str) >= 128 THEN <<239, 191, 189>> ELSE <<Head(str)>>)
         \o JSONString(Tail(str))

\* json.Marshal / json.Unmarshal of a StoredImage
MarshalImage(storedImage) == [json |-> [storedImage EXCEPT !.ID = JSONString(@)]]
UnmarshalImage(bytes) == bytes.json

\* json.Marshal / json.Unmarshal of a TileDelta and of TileFeatures
MarshalJSON(v) == [json |-> v]
UnmarshalJSON(bytes) == bytes.json

\* ------------------------------------------------------------------------
\* PebbleImageStore (storage.go)
\* ------------------------------------------------------------------------

\* ASCII of ':' and of the bucket names
Colon == 58
tilesBucket == <<116, 105, 108, 101, 115>>
imagesBucket == <<105, 109, 97, 103, 101, 115>>

makeKey(bucket, suffix) == bucket \o <<Colon>> \o suffix

makePrefixKey(bucket) == bucket \o <<Colon>>

\* PebbleImageStore.compressTileData: the tile as an RGBA image with
\* alpha 255, PNG-encoded; [err, data]
PebbleCompressTileData(data, tileSize) ==
    IF ByteLen(data) # tileSize * tileSize * 3 THEN [err |-> TRUE]
    ELSE [err |-> FALSE,
          data |-> encodeImageToPNG(
              [Width |-> tileSize, Height |-> tileSize,
               Pix |-> Evaluated([p \in 0..(tileSize * tileSize - 1) |->
                           Pixel(data[p * 3], data[p * 3 + 1], data[p * 3 + 2])])])]

\* PebbleCompressTileData(t, TileSize) of every tile of the input rasters,
\* computed once
PebbleCompressedTiles ==
    Evaluated([t \in TileUniverse |-> PebbleCompressTileData(t, TileSize)])

\* PebbleDecompressTileData with the channels read back in the order
\* B, G, R.
PebbleDecompressTileDataBGR(compressedData, tileSize) ==
    LET d == decodeImageFromBytes(compressedData)
    IN  IF d.err THEN [err |-> TRUE]
        ELSE [err |-> FALSE,
              data |-> Evaluated([i \in 0..(tileSize * tileSize * 3 - 1) |->
                  LET c == At(d.img, (i \div 3) % tileSize, (i \div 3) \div tileSize)
                  IN  CASE i % 3 = 0 -> c.B
                        [] i % 3 = 1 -> c.G
                        [] OTHER -> c.R])]

\* PebbleDecompressTileData that walks the decoded image column by
\* column: pixel number p of the data is taken from (y, x) instead of (x, y).
PebbleDecompressTileDataTransposed(compressedData, tileSize) ==
    LET d == decodeImageFromBytes(compressedData)
    IN  IF d.err THEN [err |-> TRUE]
        ELSE [err |-> FALSE,
              data |-> Evaluated([i \in 0..(tileSize * tileSize * 3 - 1) |->
                  LET c == At(d.img, (i \div 3) \div tileSize, (i \div 3) % tileSize)
                  IN  CASE i % 3 = 0 -> c.R
                        [] i % 3 = 1 -> c.G
                        [] OTHER -> c.B])]

\* PebbleImageStore.decompressTileData: [err, data]
PebbleDecompressTileData(compressedData, tileSize) ==
    LET d == decodeImageFromBytes(compressedData)
    IN  IF d.err THEN [err |-> TRUE]
        ELSE IF d.img.Width # tileSize \/ d.img.Height # tileSize THEN [err |-> TRUE]
        ELSE [err |-> FALSE,
              data |-> Evaluated([i \in 0..(tileSize * tileSize * 3 - 1) |->
                  LET c == RGBA16(At(d.img, (i \div 3) % tileSize, (i \div 3) \div tileSize))
                  IN  CASE i % 3 = 0 -> Uint8(c.R \div 256)
                        [] i % 3 = 1 -> Uint8(c.G \div 256)
                        [] OTHER -> Uint8(c.B \div 256)])]

\* PebbleImageStore.getTileData: [err, data]
PebbleGetTileData(db, tileID) ==
    LET tileKey == makeKey(tilesBucket, tileID)
    IN  IF tileKey \in DOMAIN db
        THEN PebbleDecompressTileData(db[tileKey], TileSize)
        ELSE [err |-> TRUE]

\* PebbleStoreTile without the lookup of the tile in the committed
\* keyspace (storage.go line 105): every tile not staged in this call is
\* staged again and tagged Unique.
PebbleStoreTileNoLookup(db, tile, tileRef, batch, processedTiles, faulty) ==
    LET Pass(err, b, p, t) ==
            [err |-> err, batch |-> b, processedTiles |-> p,
             ref |-> [X |-> tileRef.X, Y |-> tileRef.Y, TileID |-> tileRef.TileID,
                      StorageType |-> t]]
    IN  IF tile.ID \in processedTiles
        THEN Pass("", batch, processedTiles, StorageDuplicate)
        ELSE IF faulty
        THEN Pass("failed to store tile", batch, processedTiles, StorageUnique)
        ELSE Pass("", Put(batch, makeKey(tilesBucket, tile.ID),
                          PebbleCompressedTiles[tile.Data].data),
                  processedTiles \cup {tile.ID}, StorageUnique)

\* PebbleStoreTile without the processedTiles check (storage.go lines
\* 118-129): a tile staged earlier in the same call is staged again.
PebbleStoreTileNoBatchCheck(db, tile, tileRef, batch, processedTiles, faulty) ==
    LET tileKey == makeKey(tilesBucket, tile.ID)
        Ref(t) == [X |-> tileRef.X, Y |-> tileRef.Y, TileID |-> tileRef.TileID,
                   StorageType |-> t]
        Pass(err, b, p, t) == [err |-> err, batch |-> b, processedTiles |-> p,
                               ref |-> Ref(t)]
        Stage(compressed) ==
            IF compressed.err
            THEN Pass("failed to compress tile", batch, processedTiles, StorageUnique)
            ELSE IF faulty
            THEN Pass("failed to store tile", batch, processedTiles, StorageUnique)
            ELSE Pass("", Put(batch, tileKey, compressed.data),
                      processedTiles \cup {tile.ID}, StorageUnique)
    IN  IF tileKey \in DOMAIN db
        THEN Pass("", batch, processedTiles, StorageDuplicate)
        ELSE Stage(PebbleCompressedTiles[tile.Data])

\* One pass of the tile loop of PebbleImageStore.StoreImage, for tile
\* number i: [err, batch, processedTiles, ref].  batch holds the staged
\* writes, processedTiles the IDs staged in this call; faulty says that
\* batch.Set fails.
PebbleStoreTile(db, tile, tileRef, batch, processedTiles, faulty) ==
    LET tileKey == makeKey(tilesBucket, tile.ID)
        Ref(t) == [X |-> tileRef.X, Y |-> tileRef.Y, TileID |-> tileRef.TileID,
                   StorageType |-> t]
        Pass(err, b, p, t) == [err |-> err, batch |-> b, processedTiles |-> p,
                               ref |-> Ref(t)]
        Stage(compressed) ==
            IF compressed.err
            THEN Pass("failed to compress tile", batch, processedTiles, StorageUnique)
            ELSE IF faulty
            THEN Pass("failed to store tile", batch, processedTiles, StorageUnique)
            ELSE Pass("", Put(batch, tileKey, compressed.data),
                      processedTiles \cup {tile.ID}, StorageUnique)
    IN  IF tileKey \in DOMAIN db
        THEN Pass("", batch, processedTiles, StorageDuplicate)
        ELSE IF tile.ID \in processedTiles
        THEN Pass("", batch, processedTiles, StorageDuplicate)
        ELSE Stage(PebbleCompressedTiles[tile.Data])

RECURSIVE PebbleTileLoop(_, _, _, _, _, _, _, _)
\* The tile loop of PebbleImageStore.StoreImage from tile i on; refs are
\* the TileRefs filled in so far.  Result: [err, batch, refs].
PebbleTileLoop(db, tiles, tileRefs, i, batch, processedTiles, refs, fault) ==
    LET Continue(pass) ==
            IF pass.err # "" THEN [err |-> pass.err, batch |-> batch, refs |-> refs]
            ELSE PebbleTileLoop(db, tiles, tileRefs, i + 1, pass.batch,
                                pass.processedTiles, Append(refs, pass.ref), fault)
    IN  IF i > Len(tiles) THEN [err |-> "", batch |-> batch, refs |-> refs]
        ELSE Continue(PebbleStoreTile(db, tiles[i], tileRefs[i], batch, processedTiles,
                                      fault.op = "tile" /\ fault.k = i))

\* batch.Commit: the staged writes applied to the committed keyspace
PebbleCommit(db, batch) ==
    [k \in (DOMAIN db) \cup (DOMAIN batch) |-> IF k \in DOMAIN batch THEN batch[k] ELSE db[k]]

\* PebbleStoreImageResult with the batch committed before the error is
\* returned: what was staged up to the failure becomes visible.
PebbleStoreImageCommitsStaged(db, id, imageData, fault) ==
    LET Finish(img, loop) ==
            IF loop.err # "" THEN [err |-> loop.err, db |-> PebbleCommit(db, loop.batch)]
            ELSE IF fault.op = "meta"
            THEN [err |-> "failed to store image metadata",
                  db |-> PebbleCommit(db, loop.batch)]
            ELSE [err |-> IF fault.op = "commit" THEN "failed to commit batch" ELSE "",
                  db |-> PebbleCommit(db,
                      Put(loop.batch, makeKey(imagesBucket, id),
                          MarshalImage([ID |-> id, Width |-> img.Width,
                                        Height |-> img.Height, TileRefs |-> loop.refs,
                                        Metadata |-> EmptyMap, OriginalBytes |-> 0])))]
        Tile(img, extracted) ==
            Finish(img, PebbleTileLoop(db, extracted.tiles, extracted.tileRefs, 1,
                                       EmptyMap, {}, <<>>, fault))
        Decoded(decoded) ==
            IF decoded.err THEN [err |-> "failed to decode image", db |-> db]
            ELSE Tile(decoded.img, ExtractedTiles[decoded.img])
    IN  Decoded(decodeImageFromBytes(imageData))

\* PebbleImageStore.StoreImage: [err, db] with db the committed keyspace
\* after the call
PebbleStoreImageResult(db, id, imageData, fault) ==
    LET StoredImage(img, refs) ==
            [ID |-> id, Width |-> img.Width, Height |-> img.Height,
             TileRefs |-> refs, Metadata |-> EmptyMap, OriginalBytes |-> 0]
        Finish(img, loop) ==
            IF loop.err # "" THEN [err |-> loop.err, db |-> db]
            ELSE IF fault.op = "meta"
            THEN [err |-> "failed to store image metadata", db |-> db]
            ELSE IF fault.op = "commit"
            THEN [err |-> "failed to commit batch", db |-> db]
            ELSE [err |-> "",
                  db |-> PebbleCommit(db, Put(loop.batch, makeKey(imagesBucket, id),
                                              MarshalImage(StoredImage(img, loop.refs))))]
        Tile(img, extracted) ==
            Finish(img, PebbleTileLoop(db, extracted.tiles, extracted.tileRefs, 1,
                                       EmptyMap, {}, <<>>, fault))
        Decoded(decoded) ==
            IF decoded.err THEN [err |-> "failed to decode image", db |-> db]
            ELSE Tile(decoded.img, ExtractedTiles[decoded.img])
    IN  Decoded(decodeImageFromBytes(imageData))

\* PebbleRetrieveImageResult that answers a missing manifest with an
\* empty image instead of an error.
PebbleRetrieveImageNoError(db, id) ==
    LET imageKey == makeKey(imagesBucket, id)
        Found(storedImage) ==
            [err |-> "",
             data |-> encodeImageToPNG(
                 ReconstructImage(storedImage, TileSize,
                     [k \in 1..Len(storedImage.TileRefs) |->
                         PebbleGetTileData(db, storedImage.TileRefs[k].TileID)]).img)]
    IN  IF imageKey \notin DOMAIN db
        THEN [err |-> "", data |-> encodeImageToPNG(NewRGBA(0, 0))]
        ELSE Found(UnmarshalImage(db[imageKey]))

\* PebbleImageStore.RetrieveImage: [err, data]
PebbleRetrieveImageResult(db, id) ==
    LET imageKey == makeKey(imagesBucket, id)
    IN  IF imageKey \notin DOMAIN db THEN [err |-> "image not found"]
        ELSE
        LET storedImage == UnmarshalImage(db[imageKey])
            getTile == [k \in 1..Len(storedImage.TileRefs) |->
                           PebbleGetTileData(db, storedImage.TileRefs[k].TileID)]
            rec == ReconstructImage(storedImage, TileSize, getTile)
        IN  IF rec.err THEN [err |-> "failed to reconstruct image"]
            ELSE [err |-> "", data |-> encodeImageToPNG(rec.img)]

\* PebbleDeleteImageResult that reports success and leaves the manifest
\* in place.
PebbleDeleteImageKeepsManifest(db, id) ==
    IF makeKey(imagesBucket, id) \notin DOMAIN db
    THEN [err |-> "image not found", db |-> db]
    ELSE [err |-> "", db |-> db]

\* PebbleDeleteImageResult that deletes the tiles the manifest references
\* together with the manifest.
PebbleDeleteImageWithTiles(db, id) ==
    LET imageKey == makeKey(imagesBucket, id)
        Referenced(storedImage) ==
            {makeKey(tilesBucket, storedImage.TileRefs[k].TileID) :
                k \in DOMAIN storedImage.TileRefs}
        Without(keys) == [k \in (DOMAIN db) \ (keys \cup {imageKey}) |-> db[k]]
    IN  IF imageKey \notin DOMAIN db THEN [err |-> "image not found", db |-> db]
        ELSE [err |-> "", db |-> Without(Referenced(UnmarshalImage(db[imageKey])))]

\* PebbleImageStore.DeleteImage: [err, db]
PebbleDeleteImageResult(db, id) ==
    LET imageKey == makeKey(imagesBucket, id)
    IN  IF imageKey \notin DOMAIN db THEN [err |-> "image not found", db |-> db]
        ELSE [err |-> "", db |-> Del(db, imageKey)]

\* The keys a Pebble iterator with bounds [lower, upper) yields, in order
PebbleIter(db, lower, upper) ==
    SortedKeys({k \in DOMAIN db : ~BytesLess(k, lower) /\ BytesLess(k, upper)})

\* UpperBound of the prefix scans: append(prefix, 0xFF)
PebbleUpperBound(prefix) == prefix \o <<255>>

\* PebbleImageStore.ListImages
PebbleListImagesResult(db) ==
    LET prefix == makePrefixKey(imagesBucket)
        keys == PebbleIter(db, prefix, PebbleUpperBound(prefix))
    IN  [i \in 1..Len(keys) |-> SubSeq(keys[i], Len(prefix) + 1, Len(keys[i]))]
\* ------------------------------------------------------------------------
\* BoltImageStore (delta.go, third part)
\* ------------------------------------------------------------------------

\* The four buckets NewBoltImageStore creates, all empty
EmptyBolt == [tiles |-> EmptyMap, deltas |-> EmptyMap, images |-> EmptyMap,
              features |-> EmptyMap]

\* BoltImageStore.compressTileData / decompressTileData: zstd EncodeAll and
\* DecodeAll, a lossless byte compressor
BoltCompressTileData(data) == [err |-> FALSE, data |-> [zstd |-> data]]
BoltDecompressTileData(compressedData) == [err |-> FALSE, data |-> compressedData.zstd]

\* CreateTileDelta
CreateTileDelta(baseID, deltaData) == [BaseID |-> baseID, Delta |-> deltaData]

\* deltaIsSmaller := len(deltaData) < (len(tile.Data) * 3 / 4), in Go's
\* integer arithmetic
deltaIsSmaller(deltaLen, rawLen) == deltaLen < (rawLen * 3) \div 4

RECURSIVE getTileDataFromTx(_, _)
\* BoltImageStore.getTileDataFromTx: [err, data]
getTileDataFromTx(tx, tileID) ==
    IF tileID \in DOMAIN tx.tiles
    THEN BoltDecompressTileData(tx.tiles[tileID])
    ELSE IF tileID \in DOMAIN tx.deltas
    THEN LET tileDelta == UnmarshalJSON(tx.deltas[tileID])
             baseData == getTileDataFromTx(tx, tileDelta.BaseID)
         IN  IF baseData.err THEN [err |-> TRUE]
             ELSE ApplyDelta(baseData.data, tileDelta.Delta, TileSize)
    ELSE [err |-> TRUE]

\* BoltDirectStore without the Put into the tiles bucket: only the
\* features are written.
BoltDirectStoreFeaturesOnly(tx, index, tile, faulty) ==
    LET f == ExtractTileFeatures(tile.ID, tile.Data, TileSize)
    IN  IF faulty THEN [err |-> "failed to store tile", tx |-> tx, features |-> index]
        ELSE [err |-> "",
              tx |-> [tx EXCEPT !.features = Put(@, tile.ID, MarshalJSON(f.features))],
              features |-> AddTile(index, tile.ID, tile.Data, TileSize)]

\* The direct-store branch of BoltImageStore.StoreImage (lines 654-682 and
\* 736-763): [err, tx, features].  faulty says that tilesBkt.Put fails.
BoltDirectStore(tx, index, tile, faulty) ==
    LET Result(err, t, f) == [err |-> err, tx |-> t, features |-> f]
        Stored(tx1, f) ==
            IF f.err THEN Result("", tx1, index)
            ELSE Result("", [tx1 EXCEPT !.features = Put(@, tile.ID, MarshalJSON(f.features))],
                        AddTile(index, tile.ID, tile.Data, TileSize))
        Compressed(compressed) ==
            IF compressed.err THEN Result("failed to compress tile", tx, index)
            ELSE IF faulty THEN Result("failed to store tile", tx, index)
            ELSE Stored([tx EXCEPT !.tiles = Put(@, tile.ID, compressed.data)],
                        ExtractTileFeatures(tile.ID, tile.Data, TileSize))
    IN  Compressed(BoltCompressTileData(tile.Data))

\* BoltTryDelta that takes the similarity and delta path whatever
\* Config.EnableDeltaTiles says.
BoltTryDeltaAlways(tx, index, tile, enabled, gz) ==
    LET NotElected == [elected |-> FALSE, tx |-> tx]
        Delta(baseID, deltaData) ==
            IF deltaData.err THEN NotElected
            ELSE IF deltaIsSmaller(deltaData.data.Size, ByteLen(tile.Data))
            THEN [elected |-> TRUE,
                  tx |-> [tx EXCEPT !.deltas =
                             Put(@, tile.ID,
                                 MarshalJSON(CreateTileDelta(baseID, deltaData.data)))]]
            ELSE NotElected
        Base(baseID, baseData) ==
            IF baseData.err THEN NotElected
            ELSE Delta(baseID, ComputeDelta(tile.Data, baseData.data, TileSize, gz))
        Match(bestMatch) ==
            IF bestMatch.err \/ ~bestMatch.found THEN NotElected
            ELSE Base(bestMatch.tileID, getTileDataFromTx(tx, bestMatch.tileID))
    IN  Match(BestMatch(index, tile.Data, TileSize,
                        [t \in {index[j].TileID : j \in 1..Len(index)} |->
                            getTileDataFromTx(tx, t)]))

\* BoltTryDelta that writes the elected tile to the tiles bucket as well.
BoltTryDeltaAlsoTile(tx, index, tile, enabled, gz) ==
    LET NotElected == [elected |-> FALSE, tx |-> tx]
        Delta(baseID, deltaData) ==
            IF deltaData.err THEN NotElected
            ELSE IF deltaIsSmaller(deltaData.data.Size, ByteLen(tile.Data))
            THEN [elected |-> TRUE,
                  tx |-> [tx EXCEPT !.deltas =
                             Put(@, tile.ID,
                                 MarshalJSON(CreateTileDelta(baseID, deltaData.data))),
                                    !.tiles =
                             Put(@, tile.ID, BoltCompressTileData(tile.Data).data)]]
            ELSE NotElected
        Base(baseID, baseData) ==
            IF baseData.err THEN NotElected
            ELSE Delta(baseID, ComputeDelta(tile.Data, baseData.data, TileSize, gz))
        Match(bestMatch) ==
            IF bestMatch.err \/ ~bestMatch.found THEN NotElected
            ELSE Base(bestMatch.tileID, getTileDataFromTx(tx, bestMatch.tileID))
    IN  IF ~enabled THEN NotElected
        ELSE Match(BestMatch(index, tile.Data, TileSize,
                             [t \in {index[j].TileID : j \in 1..Len(index)} |->
                                 getTileDataFromTx(tx, t)]))

\* BoltTryDelta that records the tile itself as the base of its delta.
BoltTryDeltaSelfBase(tx, index, tile, enabled, gz) ==
    LET NotElected == [elected |-> FALSE, tx |-> tx]
        Delta(baseID, deltaData) ==
            IF deltaData.err THEN NotElected
            ELSE IF deltaIsSmaller(deltaData.data.Size, ByteLen(tile.Data))
            THEN [elected |-> TRUE,
                  tx |-> [tx EXCEPT !.deltas =
                             Put(@, tile.ID,
                                 MarshalJSON(CreateTileDelta(tile.ID, deltaData.data)))]]
            ELSE NotElected
        Base(baseID, baseData) ==
            IF baseData.err THEN NotElected
            ELSE Delta(baseID, ComputeDelta(tile.Data, baseData.data, TileSize, gz))
        Match(bestMatch) ==
            IF bestMatch.err \/ ~bestMatch.found THEN NotElected
            ELSE Base(bestMatch.tileID, getTileDataFromTx(tx, bestMatch.tileID))
    IN  IF ~enabled THEN NotElected
        ELSE Match(BestMatch(index, tile.Data, TileSize,
                             [t \in {index[j].TileID : j \in 1..Len(index)} |->
                                 getTileDataFromTx(tx, t)]))

\* The delta branch of BoltImageStore.StoreImage (lines 685-735):
\* [elected, tx], elected when the tile went to the deltas bucket
BoltTryDelta(tx, index, tile, enabled, gz) ==
    LET NotElected == [elected |-> FALSE, tx |-> tx]
        Delta(baseID, deltaData) ==
            IF deltaData.err THEN NotElected
            ELSE IF deltaIsSmaller(deltaData.data.Size, ByteLen(tile.Data))
            THEN [elected |-> TRUE,
                  tx |-> [tx EXCEPT !.deltas =
                             Put(@, tile.ID,
                                 MarshalJSON(CreateTileDelta(baseID, deltaData.data)))]]
            ELSE NotElected
        Base(baseID, baseData) ==
            IF baseData.err THEN NotElected
            ELSE Delta(baseID, ComputeDelta(tile.Data, baseData.data, TileSize, gz))
        Match(bestMatch) ==
            IF bestMatch.err \/ ~bestMatch.found THEN NotElected
            ELSE Base(bestMatch.tileID, getTileDataFromTx(tx, bestMatch.tileID))
    IN  IF ~enabled THEN NotElected
        ELSE Match(BestMatch(index, tile.Data, TileSize,
                             [t \in {index[j].TileID : j \in 1..Len(index)} |->
                                 getTileDataFromTx(tx, t)]))

\* One pass of the tile loop of BoltImageStore.StoreImage, for tile number
\* i inside the Update transaction tx: [err, tx, features, ref]
BoltStoreTile(tx, index, tile, tileRef, enabled, faulty, gz) ==
    LET Pass(err, t, f, d, st) ==
            [err |-> err, tx |-> t, features |-> f,
             ref |-> [X |-> tileRef.X, Y |-> tileRef.Y, TileID |-> tileRef.TileID,
                      IsDelta |-> d, StorageType |-> st]]
        Direct(direct) == Pass(direct.err, direct.tx, direct.features, FALSE, StorageUnique)
        Delta(delta) ==
            IF delta.elected THEN Pass("", delta.tx, index, TRUE, StorageDelta)
            ELSE Direct(BoltDirectStore(tx, index, tile, faulty))
    IN  IF tile.ID \in DOMAIN tx.tiles
        THEN Pass("", tx, index, FALSE, StorageDuplicate)
        ELSE IF tile.ID \in DOMAIN tx.deltas
        THEN Pass("", tx, index, FALSE, StorageDuplicate)
        ELSE IF Len(index) = 0 THEN Direct(BoltDirectStore(tx, index, tile, faulty))
        ELSE Delta(BoltTryDelta(tx, index, tile, enabled, gz))

RECURSIVE BoltTileLoop(_, _, _, _, _, _, _, _, _)
\* The tile loop of BoltImageStore.StoreImage from tile i on.  Result:
\* [err, tx, features, refs].
BoltTileLoop(tx, index, tiles, tileRefs, i, refs, enabled, fault, gz) ==
    LET Continue(pass) ==
            IF pass.err # ""
            THEN [err |-> pass.err, tx |-> tx, features |-> pass.features, refs |-> refs]
            ELSE BoltTileLoop(pass.tx, pass.features, tiles, tileRefs, i + 1,
                              Append(refs, pass.ref), enabled, fault, gz)
    IN  IF i > Len(tiles) THEN [err |-> "", tx |-> tx, features |-> index, refs |-> refs]
        ELSE Continue(BoltStoreTile(tx, index, tiles[i], tileRefs[i], enabled,
                                    fault.op = "tile" /\ fault.k = i, gz))

\* Bucket.Put fails with ErrKeyRequired on an empty key
BoltPutFails(key) == Len(key) = 0

\* BoltImageStore.StoreImage: [err, db, features].  db.Update commits the
\* transaction when the function returns nil and the commit succeeds, and
\* rolls it back otherwise; the matcher is changed in place either way.
BoltStoreImageResult(db, index, id, imageData, enabled, fault, gz) ==
    LET Result(err, d, f) == [err |-> err, db |-> d, features |-> f]
        StoredImage(img, refs) ==
            [ID |-> id, Width |-> img.Width, Height |-> img.Height,
             TileRefs |-> refs, Metadata |-> EmptyMap, OriginalBytes |-> 0]
        Finish(img, loop) ==
            IF loop.err # "" THEN Result(loop.err, db, loop.features)
            ELSE IF fault.op = "meta" \/ BoltPutFails(id)
            THEN Result("failed to store image metadata", db, loop.features)
            ELSE IF fault.op = "commit"
            THEN Result("failed to commit", db, loop.features)
            ELSE Result("", [loop.tx EXCEPT !.images =
                                Put(@, id, MarshalImage(StoredImage(img, loop.refs)))],
                        loop.features)
        Tile(img, extracted) ==
            Finish(img, BoltTileLoop(db, index, extracted.tiles, extracted.tileRefs, 1,
                                     <<>>, enabled, fault, gz))
        Decoded(decoded) ==
            IF decoded.err THEN Result("failed to decode image", db, index)
            ELSE Tile(decoded.img, ExtractedTiles[decoded.img])
    IN  Decoded(decodeImageFromBytes(imageData))

\* BoltImageStore.RetrieveImage: [err, data]
BoltRetrieveImageResult(db, id) ==
    IF id \notin DOMAIN db.images THEN [err |-> "image not found"]
    ELSE
    LET storedImage == UnmarshalImage(db.images[id])
        getTile == [k \in 1..Len(storedImage.TileRefs) |->
                       getTileDataFromTx(db, storedImage.TileRefs[k].TileID)]
        rec == ReconstructImage(storedImage, TileSize, getTile)
    IN  IF rec.err THEN [err |-> "failed to reconstruct image"]
        ELSE [err |-> "", data |-> encodeImageToPNG(rec.img)]

\* BoltDeleteImageResult that also deletes the tiles and deltas the
\* manifest references.
BoltDeleteImageWithTiles(db, id) ==
    IF id \notin DOMAIN db.images THEN [err |-> "image not found", db |-> db]
    ELSE LET refs == UnmarshalImage(db.images[id]).TileRefs
             ids == {refs[k].TileID : k \in DOMAIN refs}
         IN  [err |-> "",
              db |-> [db EXCEPT !.images = Del(@, id),
                                !.tiles = [t \in (DOMAIN @) \ ids |-> @[t]],
                                !.deltas = [t \in (DOMAIN @) \ ids |-> @[t]]]]

\* BoltDeleteImageResult that reports success when the manifest is missing.
BoltDeleteImageIdempotent(db, id) ==
    [err |-> "", db |-> [db EXCEPT !.images = Del(@, id)]]

\* BoltImageStore.DeleteImage: [err, db]
BoltDeleteImageResult(db, id) ==
    IF id \notin DOMAIN db.images THEN [err |-> "image not found", db |-> db]
    ELSE [err |-> "", db |-> [db EXCEPT !.images = Del(@, id)]]

\* BoltImageStore.ListImages: ForEach visits the keys in byte order
BoltListImagesResult(db) == SortedKeys(DOMAIN db.images)

\* BoltImageStore.loadFeatures: the features bucket in key order
loadFeatures(db) ==
    LET keys == SortedKeys(DOMAIN db.features)
    IN  [i \in 1..Len(keys) |-> UnmarshalJSON(db.features[keys[i]])]
\* ------------------------------------------------------------------------
\* The ImageStore interface as a state machine
\* ------------------------------------------------------------------------

\* GetStorageStats().UniqueTiles of PebbleImageStore: the keys the tiles
\* iterator visits
PebbleUniqueTiles(db) ==
    Len(PebbleIter(db, makePrefixKey(tilesBucket),
                   PebbleUpperBound(makePrefixKey(tilesBucket))))

\* GetStorageStats().UniqueTiles of BoltImageStore: the keys of the tiles
\* bucket
BoltUniqueTiles(db) == Cardinality(DOMAIN db.tiles)

\* len() of encoded image bytes.  The PNG stream itself is not computed:
\* its length is held as the 57 bytes every PNG has (signature, IHDR, one
\* IDAT and IEND chunk framing) plus one byte per pixel; bytes that are
\* no image are 7 long.
EncodedLen(data) ==
    IF data.format = "png" THEN 57 + data.img.Width * data.img.Height ELSE 7

\* The number of refs of storedImage with StorageType t
CountRefs(storedImage, t) ==
    Cardinality({k \in DOMAIN storedImage.TileRefs :
                     storedImage.TileRefs[k].StorageType = t})

\* PebbleImageStore.GetStorageStats: the counters of StorageStats (the
\* byte total of the stored values and the ratios derived from it are
\* left out).
PebbleGetStorageStatsResult(db) ==
    LET prefix == makePrefixKey(imagesBucket)
        Stats(keys) ==
            LET n == Len(keys)
                Image(i) == UnmarshalImage(db[keys[i + 1]])
                Total(f) == SumTo(Evaluated([i \in 0..(n - 1) |-> f[i]]), n)
            IN  [TotalImages |-> n,
                 TotalTiles |-> Total([i \in 0..(n - 1) |-> Len(Image(i).TileRefs)]),
                 DirectTiles |->
                     Total([i \in 0..(n - 1) |-> CountRefs(Image(i), StorageUnique)]),
                 DeduplicatedTiles |->
                     Total([i \in 0..(n - 1) |-> CountRefs(Image(i), StorageDuplicate)]),
                 OriginalBytes |->
                     Total([i \in 0..(n - 1) |-> Image(i).Width * Image(i).Height * 3]),
                 UniqueTiles |-> PebbleUniqueTiles(db)]
    IN  Stats(PebbleIter(db, prefix, PebbleUpperBound(prefix)))

\* BoltImageStore.GetStorageStats: it counts the keys of the images and
\* of the tiles bucket and leaves the other counters of StorageStats at
\* zero.
BoltGetStorageStatsResult(db) ==
    [TotalImages |-> Cardinality(DOMAIN db.images),
     TotalTiles |-> 0,
     DirectTiles |-> 0,
     DeduplicatedTiles |-> 0,
     OriginalBytes |-> 0,
     UniqueTiles |-> BoltUniqueTiles(db)]

Call(op, id, err, out) == [op |-> op, id |-> id, err |-> err, out |-> out]

Init ==
    /\ store \in {"pebble", "bolt"}
    /\ enableDelta \in (IF store = "bolt" THEN BOOLEAN ELSE {FALSE})
    /\ pebble = EmptyMap
    /\ bolt = EmptyBolt
    /\ features = loadFeatures(EmptyBolt)
    /\ last = Call("open", <<>>, "", <<>>)
    /\ stored = EmptyMap
    /\ succeeded = {}
    /\ deleted = {}
    /\ nops = 0

\* The history variables after a StoreImage call that returned err
StoreHistory(id, imageData, err) ==
    IF err = ""
    THEN \E decoded \in {decodeImageFromBytes(imageData)} :
             /\ stored' = Put(stored, id, decoded.img)
             /\ succeeded' = succeeded \cup {decoded.img}
             /\ deleted' = deleted \ {id}
    ELSE UNCHANGED <<stored, succeeded, deleted>>

\* The history variables after a DeleteImage call that returned err
DeleteHistory(id, err) ==
    /\ stored' = IF err = "" THEN Del(stored, id) ELSE stored
    /\ deleted' = IF err = "" THEN deleted \cup {id} ELSE deleted
    /\ UNCHANGED succeeded

PebbleStoreImage(id, imageData, fault) ==
    /\ store = "pebble"
    /\ nops < MaxOps
    /\ \E res \in {PebbleStoreImageResult(pebble, id, imageData, fault)} :
           /\ pebble' = res.db
           /\ last' = Call("store", id, res.err, <<>>)
           /\ StoreHistory(id, imageData, res.err)
    /\ nops' = nops + 1
    /\ UNCHANGED <<store, enableDelta, bolt, features>>

PebbleRetrieveImage(id) ==
    /\ store = "pebble"
    /\ nops < MaxOps
    /\ \E res \in {PebbleRetrieveImageResult(pebble, id)} :
           last' = Call("retrieve", id, res.err, IF res.err = "" THEN res.data ELSE <<>>)
    /\ nops' = nops + 1
    /\ UNCHANGED <<store, enableDelta, pebble, bolt, features, stored, succeeded, deleted>>

PebbleDeleteImage(id) ==
    /\ store = "pebble"
    /\ nops < MaxOps
    /\ \E res \in {PebbleDeleteImageResult(pebble, id)} :
           /\ pebble' = res.db
           /\ last' = Call("delete", id, res.err, <<>>)
           /\ DeleteHistory(id, res.err)
    /\ nops' = nops + 1
    /\ UNCHANGED <<store, enableDelta, bolt, features>>

PebbleListImages ==
    /\ store = "pebble"
    /\ nops < MaxOps
    /\ last' = Call("list", <<>>, "", PebbleListImagesResult(pebble))
    /\ nops' = nops + 1
    /\ UNCHANGED <<store, enableDelta, pebble, bolt, features, stored, succeeded, deleted>>

BoltStoreImage(id, imageData, fault, gz) ==
    /\ store = "bolt"
    /\ nops < MaxOps
    /\ \E res \in {BoltStoreImageResult(bolt, features, id, imageData, enableDelta,
                                          fault, gz)} :
           /\ Len(res.features) <= MaxIndex
           /\ bolt' = res.db
           /\ features' = res.features
           /\ last' = Call("store", id, res.err, <<>>)
           /\ StoreHistory(id, imageData, res.err)
    /\ nops' = nops + 1
    /\ UNCHANGED <<store, enableDelta, pebble>>

BoltRetrieveImage(id) ==
    /\ store = "bolt"
    /\ nops < MaxOps
    /\ \E res \in {BoltRetrieveImageResult(bolt, id)} :
           last' = Call("retrieve", id, res.err, IF res.err = "" THEN res.data ELSE <<>>)
    /\ nops' = nops + 1
    /\ UNCHANGED <<store, enableDelta, pebble, bolt, features, stored, succeeded, deleted>>

BoltDeleteImage(id) ==
    /\ store = "bolt"
    /\ nops < MaxOps
    /\ \E res \in {BoltDeleteImageResult(bolt, id)} :
           /\ bolt' = res.db
           /\ last' = Call("delete", id, res.err, <<>>)
           /\ DeleteHistory(id, res.err)
    /\ nops' = nops + 1
    /\ UNCHANGED <<store, enableDelta, pebble, features>>

BoltListImages ==
    /\ store = "bolt"
    /\ nops < MaxOps
    /\ last' = Call("list", <<>>, "", BoltListImagesResult(bolt))
    /\ nops' = nops + 1
    /\ UNCHANGED <<store, enableDelta, pebble, bolt, features, stored, succeeded, deleted>>

PebbleGetStorageStats ==
    /\ store = "pebble"
    /\ nops < MaxOps
    /\ last' = Call("stats", <<>>, "", PebbleGetStorageStatsResult(pebble))
    /\ nops' = nops + 1
    /\ UNCHANGED <<store, enableDelta, pebble, bolt, features, stored, succeeded, deleted>>

BoltGetStorageStats ==
    /\ store = "bolt"
    /\ nops < MaxOps
    /\ last' = Call("stats", <<>>, "", BoltGetStorageStatsResult(bolt))
    /\ nops' = nops + 1
    /\ UNCHANGED <<store, enableDelta, pebble, bolt, features, stored, succeeded, deleted>>

Next ==
    \/ \E id \in ImageIDs, imageData \in ImageInputs, fault \in Faults :
           PebbleStoreImage(id, imageData, fault)
    \/ \E id \in ImageIDs : PebbleRetrieveImage(id)
    \/ \E id \in ImageIDs : PebbleDeleteImage(id)
    \/ PebbleListImages
    \/ \E id \in ImageIDs, imageData \in ImageInputs, fault \in Faults, gz \in GzipLens :
           BoltStoreImage(id, imageData, fault, gz)
    \/ \E id \in ImageIDs : BoltRetrieveImage(id)
    \/ \E id \in ImageIDs : BoltDeleteImage(id)
    \/ BoltListImages
    \/ PebbleGetStorageStats
    \/ BoltGetStorageStats

Spec == Init /\ [][Next]_vars

\* ------------------------------------------------------------------------
\* The tiling, delta and tile codec functions applied on their own
\* ------------------------------------------------------------------------

\* Sample values of the tiles the codecs are applied to: the ends of the
\* byte range and the two values around the int8 limit.
CodecSamples == {0, 127, 128, 255}

\* A tile of size tileSize whose pixel p has the channels rgb shifted by
\* 16 * p
CodecTile(tileSize, rgb) ==
    [i \in 0..(tileSize * tileSize * 3 - 1) |-> (rgb[(i % 3) + 1] + (i \div 3) * 16) % 256]

\* Inputs of ComputeDelta / ApplyDelta: a new tile and a base tile
DeltaInputs ==
    {[kind |-> "delta", tileSize |-> t,
      newTile |-> CodecTile(t, <<a, b, c>>),
      baseTile |-> CodecTile(t, <<d, d, d>>)] :
        t \in 1..MaxTile, a \in CodecSamples, b \in CodecSamples, c \in CodecSamples,
        d \in CodecSamples}

\* Inputs of compressTileData / decompressTileData: a tile
CodecInputs ==
    {[kind |-> "tile", tileSize |-> t, tile |-> CodecTile(t, <<a, b, c>>)] :
        t \in 1..MaxTile, a \in CodecSamples, b \in CodecSamples, c \in CodecSamples}

\* Tile sizes and delta lengths the election test of StoreImage is applied
\* to: tile sizes up to 2 * MaxTile, every length from 0 to the raw length
\* of the largest tile
ElectionInputs ==
    {[kind |-> "election", tileSize |-> t, deltaLen |-> l] :
        t \in 1..(2 * MaxTile), l \in 0..(4 * MaxTile * MaxTile * 3)}

\* The tiles the matcher is asked about on its own: the tiles of
\* RowForward (equal features), the black tile and the tile of RasterB
MatcherTiles ==
    ExtractedTiles[RowForward].tiles \o ExtractedTiles[RasterA].tiles
        \o ExtractedTiles[RasterB].tiles

\* ExtractTileFeatures of the tiles
MatcherFeatures(tiles) ==
    Evaluated([j \in 1..Len(tiles) |->
                  ExtractTileFeatures(tiles[j].ID, tiles[j].Data, TileSize).features])

\* The index after AddTile of n tiles in turn, from tile first on and
\* around; feats holds the features of the tiles
MatcherIndex(feats, first, n) ==
    [j \in 1..n |-> feats[((first + j - 2) % Len(feats)) + 1]]

MaxMatcherIndex == TopCandidates + 2

MatcherQueries ==
    {ExtractedTiles[r].tiles[1].Data : r \in {RasterA, RasterC, QueryRaster(0)}}

MatcherFeatureTable == MatcherFeatures(MatcherTiles)

TopNInputsOf(feats, queries) ==
    {[kind |-> "topN", index |-> MatcherIndex(feats, first, n), tile |-> q,
      topN |-> topN, build |-> build] :
        first \in 1..Len(feats), n \in 0..MaxMatcherIndex,
        q \in queries, topN \in {1, TopCandidates}, build \in GoBuilds}

TopNInputs == TopNInputsOf(MatcherFeatureTable, MatcherQueries)

\* What the getTileData callback returns for the tiles when the fetch of
\* tile bad fails ("fails") or yields a sequence of the wrong length
\* ("short"); bad = 0: every fetch succeeds
MatcherGetTileData(tiles, bad, mode) ==
    [id \in {tiles[j].ID : j \in 1..Len(tiles)} |->
        LET t == CHOOSE t \in {tiles[j] : j \in 1..Len(tiles)} : t.ID = id
        IN  IF bad # 0 /\ id = tiles[bad].ID
            THEN IF mode = "fails" THEN [err |-> TRUE, data |-> <<>>]
                 ELSE [err |-> FALSE, data |-> [i \in 0..2 |-> 0]]
            ELSE [err |-> FALSE, data |-> t.Data]]

\* The getTileData callbacks, by the tile whose fetch goes wrong and how
MatcherFetches(tiles) ==
    Evaluated([bm \in (0..Len(tiles)) \X {"fails", "short"} |->
                  MatcherGetTileData(tiles, bm[1], bm[2])])

MatcherFetchTable == MatcherFetches(MatcherTiles)

MatchInputsOf(feats, fetches, queries, thresholds) ==
    {[kind |-> "match", index |-> MatcherIndex(feats, first, n), tile |-> q,
      featureThreshold |-> ft, pixelThreshold |-> pt,
      getTileData |-> fetches[<<bad, mode>>]] :
        first \in 1..Len(feats), n \in 0..MaxMatcherIndex,
        q \in queries, ft \in thresholds[1], pt \in thresholds[2],
        bad \in 0..Len(feats), mode \in {"fails", "short"}}

MatchInputs ==
    MatchInputsOf(MatcherFeatureTable, MatcherFetchTable, MatcherQueries,
                  <<{0, SimilarityThreshold}, {1, SimilarityThreshold}>>)

\* A byte sequence of n bytes
SizedData(n) == [i \in 0..(n - 1) |-> (i * 7 + 5) % 256]

\* The lengths byte sequences are given to the size checks with: none,
\* T*T*3 for T = 1 and T = 2, and one less and one more than the latter
SizedLens == {0, 3, 11, 12, 13}

\* Inputs of the functions that validate sizes: fn names the function,
\* tile its first byte sequence, other the second tile of ComputeDelta or
\* the decompressed bytes of the delta of ApplyDelta, header the length
\* the delta's 4-byte header records
SizeInputs ==
    {[kind |-> "sizes", fn |-> fn, tileSize |-> t, tile |-> SizedData(a),
      other |-> SizedData(b), header |-> h] :
        fn \in {"placeTileData", "compressTileData", "ComputeDelta", "ApplyDelta"},
        t \in 1..2, a \in SizedLens, b \in SizedLens, h \in {3, 12}}

\* Inputs of placeTileData: a raster of distinct pixels, a tile size, an
\* offset, and the step (in tiles) to the grid position a second tile is
\* placed at
PlaceInputs ==
    {[kind |-> "place", img |-> GradientRaster(w, h, 11), tileSize |-> t,
      offsetX |-> ox, offsetY |-> oy, stepX |-> d[1], stepY |-> d[2],
      tile |-> CodecTile(t, <<0, 127, 255>>), next |-> CodecTile(t, <<128, 1, 2>>)] :
        w \in 2..MaxDim, h \in 2..MaxDim, t \in 1..MaxTile,
        ox \in 0..2, oy \in 0..2, d \in {<<1, 0>>, <<0, 1>>, <<1, 1>>}}

FunctionInit ==
    /\ store = "pebble"
    /\ enableDelta = FALSE
    /\ pebble = EmptyMap
    /\ bolt = EmptyBolt
    /\ features = loadFeatures(EmptyBolt)
    /\ last \in {Call("input", <<>>, "", in) :
                    in \in TilingInputs \cup DeltaInputs \cup CodecInputs
                              \cup ElectionInputs \cup TopNInputs \cup MatchInputs
                              \cup SizeInputs \cup PlaceInputs}
    /\ stored = EmptyMap
    /\ succeeded = {}
    /\ deleted = {}
    /\ nops = 0

\* last' is the call op with result out made on the input in
Applied(op, err, in, out) ==
    /\ last' = Call(op, <<>>, err, [in |-> in, out |-> out])
    /\ nops' = nops + 1
    /\ UNCHANGED <<store, enableDelta, pebble, bolt, features, stored, succeeded, deleted>>

\* ExtractTiles(img, tileSize)
ExtractTilesCall ==
    /\ last.op = "input"
    /\ last.out.kind = "raster"
    /\ Applied("ExtractTiles", "", last.out,
               ExtractTiles(last.out.img, last.out.tileSize))

\* ReconstructImage on the refs ExtractTiles returned, with a getTileData
\* that looks the tile up by its ID among the tiles ExtractTiles returned
ReconstructImageCall ==
    /\ last.op = "ExtractTiles"
    /\ \E in \in {last.out.in} : \E extracted \in {last.out.out} :
         \E rec \in {ReconstructImage(
                [ID |-> <<>>, Width |-> in.img.Width, Height |-> in.img.Height,
                 TileRefs |-> extracted.tileRefs, Metadata |-> EmptyMap,
                 OriginalBytes |-> 0],
                in.tileSize,
                [k \in DOMAIN extracted.tileRefs |->
                    [err |-> FALSE,
                     data |-> extracted.tiles[
                         CHOOSE j \in DOMAIN extracted.tiles :
                             extracted.tiles[j].ID = extracted.tileRefs[k].TileID].Data]])} :
             Applied("ReconstructImage", IF rec.err THEN "failed" ELSE "", in,
                     IF rec.err THEN <<>> ELSE rec.img)

\* ComputeDelta(newTile, baseTile, tileSize)
ComputeDeltaCall(gz) ==
    /\ last.op = "input"
    /\ last.out.kind = "delta"
    /\ \E res \in {ComputeDelta(last.out.newTile, last.out.baseTile,
                                last.out.tileSize, gz)} :
           Applied("ComputeDelta", IF res.err THEN "failed" ELSE "", last.out,
                   IF res.err THEN <<>> ELSE res.data)

\* ApplyDelta(baseTile, deltaData, tileSize) on what ComputeDelta returned
ApplyDeltaCall ==
    /\ last.op = "ComputeDelta"
    /\ last.err = ""
    /\ \E res \in {ApplyDelta(last.out.in.baseTile, last.out.out, last.out.in.tileSize)} :
           Applied("ApplyDelta", IF res.err THEN "failed" ELSE "", last.out.in,
                   IF res.err THEN <<>> ELSE res.data)

\* compressTileData(tile) of a PebbleImageStore / BoltImageStore whose
\* Config.TileSize is the tile's size
PebbleCompressTileDataCall ==
    /\ last.op = "input"
    /\ last.out.kind = "tile"
    /\ \E res \in {PebbleCompressTileData(last.out.tile, last.out.tileSize)} :
           Applied("PebbleCompressTileData", IF res.err THEN "failed" ELSE "", last.out,
                   IF res.err THEN <<>> ELSE res.data)

BoltCompressTileDataCall ==
    /\ last.op = "input"
    /\ last.out.kind = "tile"
    /\ \E res \in {BoltCompressTileData(last.out.tile)} :
           Applied("BoltCompressTileData", IF res.err THEN "failed" ELSE "", last.out,
                   IF res.err THEN <<>> ELSE res.data)

\* decompressTileData on what compressTileData returned
PebbleDecompressTileDataCall ==
    /\ last.op = "PebbleCompressTileData"
    /\ last.err = ""
    /\ \E res \in {PebbleDecompressTileData(last.out.out, last.out.in.tileSize)} :
           Applied("PebbleDecompressTileData", IF res.err THEN "failed" ELSE "",
                   last.out.in, IF res.err THEN <<>> ELSE res.data)

BoltDecompressTileDataCall ==
    /\ last.op = "BoltCompressTileData"
    /\ last.err = ""
    /\ \E res \in {BoltDecompressTileData(last.out.out)} :
           Applied("BoltDecompressTileData", IF res.err THEN "failed" ELSE "",
                   last.out.in, IF res.err THEN <<>> ELSE res.data)

\* The election test of BoltImageStore.StoreImage on a delta of
\* deltaLen bytes for a tile of tileSize * tileSize * 3 bytes
deltaIsSmallerCall ==
    /\ last.op = "input"
    /\ last.out.kind = "election"
    /\ Applied("deltaIsSmaller", "", last.out,
               deltaIsSmaller(last.out.deltaLen,
                              last.out.tileSize * last.out.tileSize * 3))

\* FindTopSimilarTiles(tile, TileSize, topN) of a matcher that holds
\* index, in a program built with build
FindTopSimilarTilesCall ==
    /\ last.op = "input"
    /\ last.out.kind = "topN"
    /\ \E res \in {FindTopSimilarTilesBuilt(last.out.index, last.out.tile, TileSize,
                                              last.out.topN, last.out.build)} :
           Applied("FindTopSimilarTiles", IF res.err THEN "failed" ELSE "", last.out,
                   IF res.err THEN <<>> ELSE res.candidates)

\* BestMatchWithPixelCheck(tile, TileSize, featureThreshold,
\* pixelThreshold, getTileData) of a matcher that holds index
BestMatchWithPixelCheckCall ==
    /\ last.op = "input"
    /\ last.out.kind = "match"
    /\ \E res \in {BestMatchWithPixelCheck(last.out.index, last.out.tile, TileSize,
                                             last.out.featureThreshold,
                                             last.out.pixelThreshold,
                                             last.out.getTileData)} :
           Applied("BestMatchWithPixelCheck", IF res.err THEN "failed" ELSE "", last.out,
                   IF res.err THEN <<>> ELSE res)

\* placeTileData on a raster of distinct pixels, compressTileData of a
\* PebbleImageStore, ComputeDelta or ApplyDelta on byte sequences of any
\* length; out is the raster after placeTileData, the bytes returned
\* otherwise
SizeCheckedCall ==
    /\ last.op = "input"
    /\ last.out.kind = "sizes"
    /\ \E in \in {last.out} :
         \E res \in {CASE in.fn = "placeTileData" ->
                          LET img == GradientRaster(3, 3, 11)
                              placed == placeTileData(img, in.tile, 0, 0, in.tileSize, 3, 3)
                          IN  [err |-> placed.err, data |-> placed.img]
                        [] in.fn = "compressTileData" ->
                          PebbleCompressTileData(in.tile, in.tileSize)
                        [] in.fn = "ComputeDelta" ->
                          ComputeDelta(in.tile, in.other, in.tileSize, 24)
                        [] in.fn = "ApplyDelta" ->
                          ApplyDelta(in.tile,
                                     [Length |-> in.header, Gzip |-> in.other, Size |-> 24],
                                     in.tileSize)} :
             Applied("SizeChecked", IF res.err THEN "failed" ELSE "", in,
                     IF res.err /\ in.fn # "placeTileData" THEN <<>> ELSE res.data)

\* placeTileData(img, tile, offsetX, offsetY, tileSize, W, H)
placeTileDataCall ==
    /\ last.op = "input"
    /\ last.out.kind = "place"
    /\ \E in \in {last.out} :
         \E res \in {placeTileData(in.img, in.tile, in.offsetX, in.offsetY, in.tileSize,
                                    in.img.Width, in.img.Height)} :
             Applied("placeTileData", IF res.err THEN "failed" ELSE "", in, res.img)

\* placeTileData of a second tile, on the raster the first call wrote, at
\* the grid position stepX, stepY tiles further
placeTileDataNextCall ==
    /\ last.op = "placeTileData"
    /\ \E in \in {last.out.in} :
         \E res \in {placeTileData(last.out.out, in.next,
                                    in.offsetX + in.stepX * in.tileSize,
                                    in.offsetY + in.stepY * in.tileSize, in.tileSize,
                                    in.img.Width, in.img.Height)} :
             Applied("placeTileDataNext", IF res.err THEN "failed" ELSE "", in,
                     [first |-> last.out.out, second |-> res.img])

FunctionNext ==
    \/ ExtractTilesCall
    \/ ReconstructImageCall
    \/ \E gz \in GzipLens : ComputeDeltaCall(gz)
    \/ ApplyDeltaCall
    \/ PebbleCompressTileDataCall
    \/ BoltCompressTileDataCall
    \/ PebbleDecompressTileDataCall
    \/ BoltDecompressTileDataCall
    \/ deltaIsSmallerCall
    \/ FindTopSimilarTilesCall
    \/ BestMatchWithPixelCheckCall
    \/ SizeCheckedCall
    \/ placeTileDataCall
    \/ placeTileDataNextCall

FunctionSpec == FunctionInit /\ [][FunctionNext]_vars

\* ------------------------------------------------------------------------
\* What a caller of the ImageStore interface sees in the current state
\* ------------------------------------------------------------------------

UniqueTiles ==
    IF store = "pebble" THEN PebbleUniqueTiles(pebble) ELSE BoltUniqueTiles(bolt)

\* The result of RetrieveImage(id) and of ListImages()
RetrieveImageOf(p, b, id) ==
    IF store = "pebble" THEN PebbleRetrieveImageResult(p, id)
    ELSE BoltRetrieveImageResult(b, id)

RetrieveImage(id) == RetrieveImageOf(pebble, bolt, id)

GetStorageStats ==
    IF store = "pebble" THEN PebbleGetStorageStatsResult(pebble)
    ELSE BoltGetStorageStatsResult(bolt)

ListImages ==
    IF store = "pebble" THEN PebbleListImagesResult(pebble)
    ELSE BoltListImagesResult(bolt)

\* The persisted manifest of id: the key images:<id>
HasManifest(id) ==
    IF store = "pebble" THEN makeKey(imagesBucket, id) \in DOMAIN pebble
    ELSE id \in DOMAIN bolt.images

\* The manifest of id in the Pebble keyspace p or the Bolt buckets b
ManifestOf(p, b, id) ==
    IF store = "pebble" THEN UnmarshalImage(p[makeKey(imagesBucket, id)])
    ELSE UnmarshalImage(b.images[id])

Manifest(id) == ManifestOf(pebble, bolt, id)

\* The last call was op and returned err
Returned(call, op, err) == call.op = op /\ call.err = err

\* ------------------------------------------------------------------------
\* One RetrieveImage call running while StoreImage and DeleteImage calls
\* commit.  RetrieveImage reads the manifest with one Get (one View) and
\* then every tile with a Get (a View) of its own, so writers may commit
\* between any two of its reads; a writer takes effect at its commit
\* (batch.Commit, the end of db.Update).  Here last is the RetrieveImage
\* call: while it runs, last.out holds the manifest it read, the tile data
\* read so far, the raster stored under the id when the manifest was read
\* and the number of writer calls that committed since.
\* ------------------------------------------------------------------------

\* The first read of RetrieveImage: db.Get(imageKey) / imagesBkt.Get(id)
\* and json.Unmarshal, [err, storedImage]
ReadManifest(id) ==
    IF store = "pebble"
    THEN IF makeKey(imagesBucket, id) \in DOMAIN pebble
         THEN [err |-> FALSE, storedImage |-> UnmarshalImage(pebble[makeKey(imagesBucket, id)])]
         ELSE [err |-> TRUE]
    ELSE IF id \in DOMAIN bolt.images
         THEN [err |-> FALSE, storedImage |-> UnmarshalImage(bolt.images[id])]
         ELSE [err |-> TRUE]

\* getTileData on the committed state of this moment
GetTileData(tileID) ==
    IF store = "pebble" THEN PebbleGetTileData(pebble, tileID)
    ELSE getTileDataFromTx(bolt, tileID)

\* RetrieveImage up to and including the read of the manifest
ReaderBegin(id) ==
    /\ last.op # "retrieving"
    /\ nops < MaxOps
    /\ \E m \in {ReadManifest(id)} :
           last' = IF m.err THEN Call("retrieve", id, "image not found", <<>>)
                   ELSE Call("retrieving", id, "",
                             [storedImage |-> m.storedImage, tiles |-> <<>>,
                              expected |-> stored[id], writes |-> 0])
    /\ nops' = nops + 1
    /\ UNCHANGED <<store, enableDelta, pebble, bolt, features, stored, succeeded, deleted>>

\* One pass of the loop of ReconstructImage: the next tile is read; after
\* the last tile the image is complete and encoded.
ReaderGetTile ==
    /\ last.op = "retrieving"
    /\ \E refs \in {last.out.storedImage.TileRefs} :
       \E tile \in {GetTileData(refs[Len(last.out.tiles) + 1].TileID)} :
           LET Done(err, data) ==
                   Call("retrieve", last.id, err,
                        [data |-> data, expected |-> last.out.expected,
                         writes |-> last.out.writes])
               Encoded(rec) ==
                   IF rec.err THEN Done("failed to reconstruct image", <<>>)
                   ELSE Done("", encodeImageToPNG(rec.img))
           IN  last' = IF tile.err THEN Done("failed to reconstruct image", <<>>)
                       ELSE IF Len(last.out.tiles) + 1 < Len(refs)
                       THEN [last EXCEPT !.out.tiles = Append(@, tile)]
                       ELSE Encoded(ReconstructImage(last.out.storedImage, TileSize,
                                                     Append(last.out.tiles, tile)))
    /\ UNCHANGED <<store, enableDelta, pebble, bolt, features, stored, succeeded, deleted,
                   nops>>

\* The RetrieveImage call after a writer committed: a running call has one
\* more writer to count
Overlapped(call) ==
    IF call.op = "retrieving" THEN [call EXCEPT !.out.writes = @ + 1] ELSE call

\* A StoreImage call that runs and commits (or fails) between two reads
WriterStoreImage(id, imageData, fault, gz) ==
    /\ nops < MaxOps
    /\ IF store = "pebble"
       THEN \E res \in {PebbleStoreImageResult(pebble, id, imageData, fault)} :
                /\ pebble' = res.db
                /\ StoreHistory(id, imageData, res.err)
                /\ UNCHANGED <<bolt, features>>
       ELSE \E res \in {BoltStoreImageResult(bolt, features, id, imageData, enableDelta,
                                              fault, gz)} :
                /\ Len(res.features) <= MaxIndex
                /\ bolt' = res.db
                /\ features' = res.features
                /\ StoreHistory(id, imageData, res.err)
                /\ UNCHANGED pebble
    /\ last' = Overlapped(last)
    /\ nops' = nops + 1
    /\ UNCHANGED <<store, enableDelta>>

\* A DeleteImage call that runs and commits between two reads
WriterDeleteImage(id) ==
    /\ nops < MaxOps
    /\ IF store = "pebble"
       THEN \E res \in {PebbleDeleteImageResult(pebble, id)} :
                pebble' = res.db /\ DeleteHistory(id, res.err) /\ UNCHANGED bolt
       ELSE \E res \in {BoltDeleteImageResult(bolt, id)} :
                bolt' = res.db /\ DeleteHistory(id, res.err) /\ UNCHANGED pebble
    /\ last' = Overlapped(last)
    /\ nops' = nops + 1
    /\ UNCHANGED <<store, enableDelta, features>>

ConcurrentNext ==
    \/ \E id \in ImageIDs : ReaderBegin(id)
    \/ ReaderGetTile
    \/ \E id \in ImageIDs, imageData \in ImageInputs, fault \in Faults, gz \in GzipLens :
           WriterStoreImage(id, imageData, fault, gz)
    \/ \E id \in ImageIDs : WriterDeleteImage(id)

ConcurrentSpec == Init /\ [][ConcurrentNext]_vars

\* ------------------------------------------------------------------------
\* StoreImage and DeleteImage calls made by concurrent callers (the HTTP
\* handlers run each request on a goroutine of its own and call the store
\* without a lock).  A StoreImage call is split where other calls can
\* run: after decoding and tiling, after every pass of its tile loop, and
\* before its commit.  PebbleImageStore holds no lock at all; in
\* BoltImageStore the loop and the commit run inside db.Update, which
\* admits one read-write transaction at a time.  Here last.out.calls is
\* the StoreImage call of every caller and last.op, last.out.by name the
\* step taken last.  No persistence failure is injected.
\* ------------------------------------------------------------------------

Writers == {1, 2}

Idle == [pc |-> "idle"]

\* A StoreImage call inside its tile loop: i is the next tile, batch
\* (Pebble) or tx (Bolt) the writes staged so far
InLoop(id, img, i, batch, processedTiles, tx, refs) ==
    [pc |-> "loop", id |-> id, img |-> img, i |-> i, batch |-> batch,
     processedTiles |-> processedTiles, tx |-> tx, refs |-> refs]

\* The step op of caller w, after which its StoreImage call is call
WriterStep(op, w, err, call) ==
    Call(op, <<>>, err, [by |-> w, calls |-> [last.out.calls EXCEPT ![w] = call]])

\* db.Update may start: no read-write transaction is open
\* db.Update that does not wait for the writer lock
BoltWriterNoLock == TRUE

BoltWriterLockFree == \A w \in Writers : last.out.calls[w].pc = "idle"

WritersInit ==
    /\ store \in {"pebble", "bolt"}
    /\ enableDelta \in (IF store = "bolt" THEN BOOLEAN ELSE {FALSE})
    /\ pebble = EmptyMap
    /\ bolt = EmptyBolt
    /\ features = loadFeatures(EmptyBolt)
    /\ last = Call("open", <<>>, "", [by |-> 0, calls |-> [w \in Writers |-> Idle]])
    /\ stored = EmptyMap
    /\ succeeded = {}
    /\ deleted = {}
    /\ nops = 0

\* StoreImage up to the tile loop: decodeImageFromBytes, ExtractTiles,
\* db.NewBatch (Pebble) or the start of db.Update (Bolt)
WriterBegin(w, id, imageData) ==
    /\ last.out.calls[w].pc = "idle"
    /\ nops < MaxOps
    /\ store = "bolt" => BoltWriterLockFree
    /\ \E decoded \in {decodeImageFromBytes(imageData)} :
           last' = IF decoded.err THEN WriterStep("begin", w, "failed to decode image", Idle)
                   ELSE WriterStep("begin", w, "",
                                   InLoop(id, decoded.img, 1, EmptyMap, {}, bolt, <<>>))
    /\ nops' = nops + 1
    /\ UNCHANGED <<store, enableDelta, pebble, bolt, features, stored, succeeded, deleted>>

\* One pass of the tile loop of caller w
WriterTile(w, gz) ==
    /\ last.out.calls[w].pc = "loop"
    /\ \E call \in {last.out.calls[w]} :
       \E extracted \in {ExtractedTiles[call.img]} :
           /\ call.i <= Len(extracted.tiles)
           /\ IF store = "pebble"
              THEN \E pass \in {PebbleStoreTile(pebble, extracted.tiles[call.i],
                                                extracted.tileRefs[call.i], call.batch,
                                                call.processedTiles, FALSE)} :
                       /\ last' = IF pass.err # "" THEN WriterStep("tile", w, pass.err, Idle)
                                  ELSE WriterStep("tile", w, "",
                                           InLoop(call.id, call.img, call.i + 1, pass.batch,
                                                  pass.processedTiles, call.tx,
                                                  Append(call.refs, pass.ref)))
                       /\ UNCHANGED features
              ELSE \E pass \in {BoltStoreTile(call.tx, features, extracted.tiles[call.i],
                                              extracted.tileRefs[call.i], enableDelta,
                                              FALSE, gz)} :
                       /\ Len(pass.features) <= MaxIndex
                       /\ last' = IF pass.err # "" THEN WriterStep("tile", w, pass.err, Idle)
                                  ELSE WriterStep("tile", w, "",
                                           InLoop(call.id, call.img, call.i + 1, call.batch,
                                                  call.processedTiles, pass.tx,
                                                  Append(call.refs, pass.ref)))
                       /\ features' = pass.features
    /\ UNCHANGED <<store, enableDelta, pebble, bolt, stored, succeeded, deleted, nops>>

\* The end of StoreImage of caller w: the manifest is staged and the batch
\* (the transaction) is committed
WriterCommit(w) ==
    /\ last.out.calls[w].pc = "loop"
    /\ \E call \in {last.out.calls[w]} :
           /\ call.i > Len(ExtractedTiles[call.img].tiles)
           /\ \E imageBytes \in {MarshalImage([ID |-> call.id, Width |-> call.img.Width,
                                               Height |-> call.img.Height,
                                               TileRefs |-> call.refs,
                                               Metadata |-> EmptyMap, OriginalBytes |-> 0])} :
                  IF store = "pebble"
                  THEN /\ pebble' = PebbleCommit(pebble, Put(call.batch,
                                                             makeKey(imagesBucket, call.id),
                                                             imageBytes))
                       /\ UNCHANGED bolt
                  ELSE /\ bolt' = [call.tx EXCEPT !.images = Put(@, call.id, imageBytes)]
                       /\ UNCHANGED pebble
           /\ StoreHistory(call.id, EncodedPNG(call.img), "")
    /\ last' = WriterStep("commit", w, "", Idle)
    /\ UNCHANGED <<store, enableDelta, features, nops>>

\* A whole DeleteImage call of caller w
WriterDelete(w, id) ==
    /\ last.out.calls[w].pc = "idle"
    /\ nops < MaxOps
    /\ store = "bolt" => BoltWriterLockFree
    /\ IF store = "pebble"
       THEN \E res \in {PebbleDeleteImageResult(pebble, id)} :
                /\ pebble' = res.db
                /\ DeleteHistory(id, res.err)
                /\ last' = WriterStep("delete", w, res.err, Idle)
                /\ UNCHANGED bolt
       ELSE \E res \in {BoltDeleteImageResult(bolt, id)} :
                /\ bolt' = res.db
                /\ DeleteHistory(id, res.err)
                /\ last' = WriterStep("delete", w, res.err, Idle)
                /\ UNCHANGED pebble
    /\ nops' = nops + 1
    /\ UNCHANGED <<store, enableDelta, features>>

WritersNext ==
    \/ \E w \in Writers, id \in ImageIDs, imageData \in ImageInputs :
           WriterBegin(w, id, imageData)
    \/ \E w \in Writers, gz \in GzipLens : WriterTile(w, gz)
    \/ \E w \in Writers : WriterCommit(w)
    \/ \E w \in Writers, id \in ImageIDs : WriterDelete(w, id)

WritersSpec == WritersInit /\ [][WritersNext]_vars

\* ------------------------------------------------------------------------
\* Properties
\* ------------------------------------------------------------------------

\* C1.  Dedup correctness: when a StoreImage call succeeds with a raster
\* that an earlier StoreImage call stored successfully, UniqueTiles is the
\* same before and after the call and every TileRef of the manifest it
\* writes has StorageType Duplicate.  Both stores, delta tiles included.
C1_DedupCorrectness ==
    [][(Returned(last', "store", "") /\ stored'[last'.id] \in succeeded)
        => /\ UniqueTiles' = UniqueTiles
           /\ \E written \in {ManifestOf(pebble', bolt', last'.id)} :
                  \A k \in DOMAIN written.TileRefs :
                      written.TileRefs[k].StorageType = StorageDuplicate]_vars

\* A raster whose tile went to the deltas bucket has been stored a second
\* time under another id.
C1_Witness ==
    /\ store = "bolt"
    /\ Returned(last, "store", "")
    /\ \E a \in (DOMAIN stored) \ {last.id} : stored[a] = stored[last.id]
    /\ \E k \in DOMAIN Manifest(last.id).TileRefs :
           Manifest(last.id).TileRefs[k].TileID \in DOMAIN bolt.deltas
    /\ \A k \in DOMAIN Manifest(last.id).TileRefs :
           Manifest(last.id).TileRefs[k].StorageType = StorageDuplicate

\* The raster a successful RetrieveImage(id) returns is the raster r
Retrieves(id, r) ==
    \E res \in {RetrieveImage(id)} :
        /\ res.err = ""
        /\ \E decoded \in {decodeImageFromBytes(res.data)} :
               ~decoded.err /\ decoded.img = r

\* C2.  Lossless round trip without deltas: on a PebbleImageStore, or with
\* EnableDeltaTiles = false, RetrieveImage(id) of every id that has a
\* manifest yields the raster most recently stored under that id (same
\* width, height and pixels).
C2_LosslessWithoutDeltas ==
    (store = "pebble" \/ ~enableDelta)
        => \A id \in ImageIDs : HasManifest(id) => Retrieves(id, stored[id])

\* An image with a partial second tile was stored over an earlier image of
\* the same id and is retrieved pixel-exactly.
C2_Witness ==
    /\ store = "pebble"
    /\ nops >= 2
    /\ \E id \in DOMAIN stored :
           /\ stored[id] = RasterE
           /\ Cardinality(succeeded) >= 2
           /\ Retrieves(id, RasterE)

\* C3.  Lossless retrieval with delta storage: on a BoltImageStore with
\* EnableDeltaTiles = true, RetrieveImage(id) of every id that has a
\* manifest yields the raster most recently stored under that id, also
\* when tiles of it were stored as deltas.
C3_LosslessWithDeltas ==
    (store = "bolt" /\ enableDelta)
        => \A id \in ImageIDs : HasManifest(id) => Retrieves(id, stored[id])

\* C4.  StoreImage is all-or-nothing: a StoreImage call that returns an
\* error leaves every persisted collection (tiles, deltas, features,
\* images) as it was before the call.
C4_StoreAllOrNothing ==
    [][(last'.op = "store" /\ last'.err # "") => (pebble' = pebble /\ bolt' = bolt)]_vars

\* The Put of the second tile failed after the first tile had been staged
\* (the matcher holds it) and nothing of the call is persisted.
C4_Witness ==
    /\ store = "bolt"
    /\ Returned(last, "store", "failed to store tile")
    /\ Len(features) = 1
    /\ bolt = EmptyBolt

RECURSIVE ChainEndsInTiles(_, _, _)
\* tileID is a key of db.tiles, or a key of db.deltas whose BaseID chain
\* reaches a key of db.tiles within n steps
ChainEndsInTiles(db, tileID, n) ==
    \/ tileID \in DOMAIN db.tiles
    \/ /\ n > 0
       /\ tileID \in DOMAIN db.deltas
       /\ ChainEndsInTiles(db, UnmarshalJSON(db.deltas[tileID]).BaseID, n - 1)

Resolves(tileID) ==
    IF store = "pebble" THEN makeKey(tilesBucket, tileID) \in DOMAIN pebble
    ELSE ChainEndsInTiles(bolt, tileID, Cardinality(DOMAIN bolt.deltas))

\* C5.  Referential integrity: every TileID a persisted manifest references
\* is a key of the tiles collection or a key of the deltas collection
\* whose BaseID chain ends at a key of tiles.
C5_ReferentialIntegrity ==
    \A id \in ImageIDs :
        HasManifest(id) =>
            \E manifest \in {Manifest(id)} :
                \A k \in DOMAIN manifest.TileRefs : Resolves(manifest.TileRefs[k].TileID)

\* A manifest references a tile that is stored as a delta.
C5_Witness ==
    /\ store = "bolt"
    /\ \E id \in ImageIDs :
           /\ HasManifest(id)
           /\ \E k \in DOMAIN Manifest(id).TileRefs :
                  /\ Manifest(id).TileRefs[k].StorageType = StorageDelta
                  /\ Manifest(id).TileRefs[k].TileID \in DOMAIN bolt.deltas
                  /\ Manifest(id).TileRefs[k].TileID \notin DOMAIN bolt.tiles

\* id is not among the ids ListImages() returns
NotListed(id) == \A i \in DOMAIN ListImages : ListImages[i] # id

\* C6.  After a successful DeleteImage(id) and until the next successful
\* StoreImage(id, .), RetrieveImage(id) returns a not-found error and
\* ListImages() does not contain id.
C6_DeletedStaysGone ==
    \A id \in deleted : RetrieveImage(id).err = "image not found" /\ NotListed(id)

\* RetrieveImage of a deleted id has just answered not found.
C6_Witness ==
    /\ Returned(last, "retrieve", "image not found")
    /\ last.id \in deleted
    /\ NotListed(last.id)

C8_DeleteMissing ==
    [][(last'.op = "delete" /\ ~HasManifest(last'.id)) =>
        /\ last'.err = "image not found"
        /\ pebble' = pebble
        /\ bolt' = bolt
        /\ features' = features]_vars

\* A second DeleteImage(id) after a successful one has failed.
C8_Witness ==
    /\ Returned(last, "delete", "image not found")
    /\ last.id \in deleted

\* C9.  RetrieveImage(id) of an id that has no manifest returns a
\* not-found error and no image bytes, and no RetrieveImage call changes a
\* persisted collection or the similarity index.
C9_RetrieveMissing ==
    [][last'.op = "retrieve" =>
        /\ ~HasManifest(last'.id) => (last'.err = "image not found" /\ last'.out = <<>>)
        /\ pebble' = pebble
        /\ bolt' = bolt
        /\ features' = features]_vars

\* RetrieveImage of an id that was never stored has failed on a store that
\* holds another image.
C9_Witness ==
    /\ Returned(last, "retrieve", "image not found")
    /\ last.id \notin deleted
    /\ DOMAIN stored # {}

\* C10.  ListImages() returns exactly the ids that have a manifest, each
\* once, in ascending key order, for every id a caller can pass.
C10_ListImagesExact ==
    \E listed \in {ListImages} :
        /\ Len(listed) = Cardinality({id \in ImageIDs : HasManifest(id)})
        /\ \A id \in ImageIDs : HasManifest(id) <=> (\E i \in DOMAIN listed : listed[i] = id)
        /\ \A i \in DOMAIN listed : \A j \in DOMAIN listed :
               i < j => BytesLess(listed[i], listed[j])

\* The ids that have a manifest, in ascending order, and the keys of the
\* tiles collection
ManifestIDs == SortedKeys({id \in ImageIDs : HasManifest(id)})

TileKeys ==
    IF store = "pebble"
    THEN {k \in DOMAIN pebble :
              /\ Len(k) > Len(makePrefixKey(tilesBucket))
              /\ SubSeq(k, 1, Len(makePrefixKey(tilesBucket))) = makePrefixKey(tilesBucket)}
    ELSE DOMAIN bolt.tiles

\* C11.  GetStorageStats matches the persisted state: TotalImages is the
\* number of manifests, TotalTiles the sum of len(TileRefs) over the
\* manifests, DirectTiles + DeduplicatedTiles = TotalTiles, UniqueTiles the
\* number of keys of the tiles collection; all are 0 on an empty store.
C11_StatsMatchState ==
    \E stats \in {GetStorageStats} : \E ids \in {ManifestIDs} :
        /\ stats.TotalImages = Len(ids)
        /\ stats.TotalTiles =
               SumTo([i \in 0..(Len(ids) - 1) |-> Len(Manifest(ids[i + 1]).TileRefs)],
                     Len(ids))
        /\ stats.DirectTiles + stats.DeduplicatedTiles = stats.TotalTiles
        /\ stats.UniqueTiles = Cardinality(TileKeys)

\* C12.  Every manifest records OriginalBytes = len(encodedBytes) of the
\* StoreImage call that wrote it, and GetStorageStats().OriginalBytes is
\* the sum of the recorded values over the manifests (positive once an
\* image is stored).
C12_OriginalBytesRecorded ==
    \E stats \in {GetStorageStats} : \E ids \in {ManifestIDs} :
        /\ \A i \in DOMAIN ids :
               Manifest(ids[i]).OriginalBytes = EncodedLen(EncodedPNG(stored[ids[i]]))
        /\ stats.OriginalBytes =
               SumTo([i \in 0..(Len(ids) - 1) |-> Manifest(ids[i + 1]).OriginalBytes],
                     Len(ids))
        /\ (Len(ids) > 0 => stats.OriginalBytes > 0)

\* ceil(a / b) for a >= 1, b >= 1: the least n with n * b >= a
Ceil(a, b) == CHOOSE n \in 1..a : n * b >= a /\ (n - 1) * b < a

Channel(c, ch) == CASE ch = 0 -> c.R [] ch = 1 -> c.G [] OTHER -> c.B

\* C14.  Padding is zero: in every tile ExtractTiles produced, a sample
\* whose source coordinate (tileX*T + x, tileY*T + y) lies outside the
\* W x H raster is 0 in all three channels, and an in-bounds sample is the
\* 8-bit R, G, B of the source pixel at that coordinate.
C14_PaddingIsZero ==
    last.op = "ExtractTiles" =>
        \E in \in {last.out.in} : \E extracted \in {last.out.out} :
            \A k \in DOMAIN extracted.tiles :
              \A x \in 0..(in.tileSize - 1) : \A y \in 0..(in.tileSize - 1) :
                \A ch \in 0..2 :
                  \E srcX \in {extracted.tileRefs[k].X * in.tileSize + x} :
                    \E srcY \in {extracted.tileRefs[k].Y * in.tileSize + y} :
                      extracted.tiles[k].Data[(y * in.tileSize + x) * 3 + ch]
                          = IF srcX < in.img.Width /\ srcY < in.img.Height
                            THEN Channel(in.img.Pix[srcY * in.img.Width + srcX], ch)
                            ELSE 0

\* ExtractTiles has returned a tile that holds a coloured pixel of the
\* raster and padding beyond the raster's right and bottom edge.
C14_Witness ==
    /\ last.op = "ExtractTiles"
    /\ last.out.in.tileSize >= 2
    /\ \E k \in DOMAIN last.out.out.tiles :
           /\ last.out.out.tiles[k].Data[0] # 0
           /\ (last.out.out.tileRefs[k].X + 1) * last.out.in.tileSize
                  > last.out.in.img.Width
           /\ (last.out.out.tileRefs[k].Y + 1) * last.out.in.tileSize
                  > last.out.in.img.Height
           /\ \A ch \in 0..2 :
                  last.out.out.tiles[k].Data[
                      last.out.in.tileSize * last.out.in.tileSize * 3 - 3 + ch] = 0

\* C15.  Tiling round trip: ReconstructImage applied to the TileRefs and
\* tile data of ExtractTiles(R, T) succeeds and yields a W x H raster
\* whose every pixel is R's pixel, also when W or H is no multiple of T.
C15_TilingRoundTrip ==
    last.op = "ReconstructImage" =>
        /\ last.err = ""
        /\ \E in \in {last.out.in} : \E img \in {last.out.out} :
               /\ img.Width = in.img.Width
               /\ img.Height = in.img.Height
               /\ DOMAIN img.Pix = 0..(in.img.Width * in.img.Height - 1)
               /\ \A p \in DOMAIN img.Pix : img.Pix[p] = in.img.Pix[p]

\* ReconstructImage has rebuilt a raster of distinct pixels from a grid of
\* at least two rows and columns whose last row and column are partial
\* tiles.
C15_Witness ==
    /\ last.op = "ReconstructImage"
    /\ last.err = ""
    /\ last.out.in.img.Width > last.out.in.tileSize
    /\ last.out.in.img.Height > last.out.in.tileSize
    /\ last.out.in.img.Width % last.out.in.tileSize # 0
    /\ last.out.in.img.Height % last.out.in.tileSize # 0
    /\ last.out.out.Pix[0] # last.out.out.Pix[1]

\* ASCII codes of the hex digits 0-9 and a-f
HexDigits == (48..57) \cup (97..102)

\* C16.  Tile identity is a function of the tile bytes: every tile
\* ExtractTiles returns has Hash = ComputeTileHash(Data) and
\* ID = GenerateTileID(Hash), its ref carries that ID, two tiles with equal
\* bytes have equal IDs, and every ID is 64 hex characters.
C16_TileIdentity ==
    last.op = "ExtractTiles" =>
        \E extracted \in {last.out.out} :
            /\ \A k \in DOMAIN extracted.tiles :
                   \E tile \in {extracted.tiles[k]} :
                       /\ tile.Hash = ComputeTileHash(tile.Data)
                       /\ tile.ID = GenerateTileID(tile.Hash)
                       /\ extracted.tileRefs[k].TileID = tile.ID
                       /\ Len(tile.ID) = 64
                       /\ \A c \in 1..64 : tile.ID[c] \in HexDigits
            /\ \A j \in DOMAIN extracted.tiles : \A k \in DOMAIN extracted.tiles :
                   extracted.tiles[j].Data = extracted.tiles[k].Data
                       => extracted.tiles[j].ID = extracted.tiles[k].ID

\* ExtractTiles has returned two tiles of equal bytes with one ID, cut from
\* a full and from a partial (zero-padded) region of the raster.
C16_Witness ==
    /\ last.op = "ExtractTiles"
    /\ last.out.in.img.Width > last.out.in.tileSize
    /\ last.out.in.img.Width % last.out.in.tileSize # 0
    /\ \E n \in {Len(last.out.out.tiles)} :
           /\ n >= 2
           /\ last.out.out.tiles[1].Data = last.out.out.tiles[n].Data
           /\ last.out.out.tiles[1].ID = last.out.out.tiles[n].ID

\* new[i] - base[i] of the tiles ComputeDelta / ApplyDelta were applied to
SampleDiff(in, i) == in.newTile[i] - in.baseTile[i]

\* C17.  Delta exactness on small differences: when |new[i] - base[i]| <= 127
\* at every index, ApplyDelta(base, ComputeDelta(new, base)) returns new.
C17_DeltaExactOnSmallDiffs ==
    last.op = "ApplyDelta" =>
        \E in \in {last.out.in} :
            (\A i \in DOMAIN in.newTile : Abs(SampleDiff(in, i)) <= 127)
                => (last.err = "" /\ last.out.out = in.newTile)

\* ApplyDelta has rebuilt a tile that differs from its base by exactly 127
\* in some sample and by at most 127 in all.
C17_Witness ==
    /\ last.op = "ApplyDelta"
    /\ last.err = ""
    /\ \A i \in DOMAIN last.out.in.newTile : Abs(SampleDiff(last.out.in, i)) <= 127
    /\ \E i \in DOMAIN last.out.in.newTile : Abs(SampleDiff(last.out.in, i)) = 127
    /\ last.out.out = last.out.in.newTile
    /\ last.out.in.newTile # last.out.in.baseTile

\* C18.  Delta saturation bound: out = ApplyDelta(base, ComputeDelta(new,
\* base)) has 0 <= out[i] <= 255 and
\* |out[i] - new[i]| <= max(0, |new[i] - base[i]| - 127) at every index.
C18_DeltaSaturationBound ==
    last.op = "ApplyDelta" =>
        /\ last.err = ""
        /\ \E in \in {last.out.in} : \E out \in {last.out.out} :
               /\ DOMAIN out = DOMAIN in.newTile
               /\ \A i \in DOMAIN out :
                      /\ 0 <= out[i]
                      /\ out[i] <= 255
                      /\ Abs(out[i] - in.newTile[i])
                             <= IF Abs(SampleDiff(in, i)) > 127
                                THEN Abs(SampleDiff(in, i)) - 127 ELSE 0

\* ApplyDelta has returned a sample that the clamp moved away from the new
\* tile's by the full bound, for a difference of 255.
C18_Witness ==
    /\ last.op = "ApplyDelta"
    /\ last.err = ""
    /\ \E i \in DOMAIN last.out.out :
           /\ SampleDiff(last.out.in, i) = 255
           /\ Abs(last.out.out[i] - last.out.in.newTile[i]) = 128

NothingStagedForPresentTiles ==
    \A r \in Rasters :
        \E extracted \in {ExtractedTiles[r]} :
            \A k \in DOMAIN extracted.tiles :
                IF store = "pebble"
                THEN makeKey(tilesBucket, extracted.tiles[k].ID) \in DOMAIN pebble =>
                         \E pass \in {PebbleStoreTile(pebble, extracted.tiles[k],
                                                      extracted.tileRefs[k], EmptyMap,
                                                      {}, FALSE)} :
                             pass.err = "" /\ pass.batch = EmptyMap
                ELSE extracted.tiles[k].ID \in (DOMAIN bolt.tiles) \cup (DOMAIN bolt.deltas) =>
                         \A gz \in GzipLens :
                             \E pass \in {BoltStoreTile(bolt, features, extracted.tiles[k],
                                                        extracted.tileRefs[k], enableDelta,
                                                        FALSE, gz)} :
                                 pass.err = "" /\ pass.tx = bolt /\ pass.features = features

\* Every key of tiles and of deltas is a key of the next state with the
\* same value.
TilesAndDeltasKept ==
    /\ \A k \in TileKeys :
           IF store = "pebble" THEN k \in DOMAIN pebble' /\ pebble'[k] = pebble[k]
           ELSE k \in DOMAIN bolt'.tiles /\ bolt'.tiles[k] = bolt.tiles[k]
    /\ \A k \in DOMAIN bolt.deltas :
           k \in DOMAIN bolt'.deltas /\ bolt'.deltas[k] = bolt.deltas[k]

TileStoredIn(p, b, tileID) ==
    IF store = "pebble" THEN makeKey(tilesBucket, tileID) \in DOMAIN p
    ELSE tileID \in DOMAIN b.tiles

\* The refs a StoreImage call wrote without delta storage: none is tagged
\* Delta; a tile that was a key of tiles before the call, or that occurs
\* earlier in the same image, is tagged Duplicate; every other tile is
\* tagged Unique and is a key of tiles after the call.
RefsWithoutDeltas(refs) ==
    \A k \in DOMAIN refs :
        /\ store = "bolt" => ~refs[k].IsDelta
        /\ refs[k].StorageType # StorageDelta
        /\ IF \/ TileStoredIn(pebble, bolt, refs[k].TileID)
              \/ \E j \in 1..(k - 1) : refs[j].TileID = refs[k].TileID
           THEN refs[k].StorageType = StorageDuplicate
           ELSE /\ refs[k].StorageType = StorageUnique
                /\ TileStoredIn(pebble', bolt', refs[k].TileID)

\* C21.  With EnableDeltaTiles = false no StoreImage call writes to the
\* deltas collection or tags a TileRef as Delta: every tile that is not a
\* duplicate is written to tiles and tagged Unique, whatever the
\* similarity index holds.
C21_NoDeltasWhenDisabled ==
    [][(~enableDelta /\ last'.op = "store")
           => /\ bolt'.deltas = bolt.deltas
              /\ bolt'.deltas = EmptyMap
              /\ last'.err = "" =>
                     RefsWithoutDeltas(ManifestOf(pebble', bolt', last'.id).TileRefs)]_vars

\* With delta storage off, a BoltImageStore holds the black tile and the
\* tile that differs from it in one sample by 100 (a delta candidate) both
\* in tiles, the index holds entries, and deltas is empty.
C21_Witness ==
    /\ store = "bolt"
    /\ ~enableDelta
    /\ Returned(last, "store", "")
    /\ Len(features) >= 2
    /\ bolt.deltas = EmptyMap
    /\ \A r \in {RasterA, RasterC} :
           ExtractedTiles[r].tiles[1].ID \in DOMAIN bolt.tiles
    /\ \E k \in DOMAIN Manifest(last.id).TileRefs :
           Manifest(last.id).TileRefs[k].StorageType = StorageUnique

\* The RetrieveImage call has returned not-found, or the complete image of
\* the raster that was stored under its id when it read the manifest.
ReaderSafe ==
    last.op = "retrieve" =>
        \/ last.err = "image not found"
        \/ last.err = "" /\ last.out.data = encodeImageToPNG(last.out.expected)

\* C22.  Reader/writer interleaving is safe: a RetrieveImage(id) that runs
\* while StoreImage and DeleteImage calls commit, one at a time, returns
\* either a not-found error or the complete image of a raster that was
\* stored under id; it never fails with a missing tile and never returns a
\* partially written image.
C22_ReaderWriterSafe == ReaderSafe

\* The same without delta storage (PebbleImageStore, and BoltImageStore
\* with EnableDeltaTiles = false)
C22_ReaderWriterSafeWithoutDeltas == ~enableDelta => ReaderSafe

\* A RetrieveImage of a two-tile image has returned the image although a
\* writer committed after it read the manifest and the manifest is gone
\* or replaced by now.
C22_Witness ==
    /\ ~enableDelta
    /\ Returned(last, "retrieve", "")
    /\ last.out.writes >= 1
    /\ last.out.expected.Width > TileSize
    /\ last.id \notin DOMAIN stored \/ stored[last.id] # last.out.expected

\* A StoreImage call that has made a dedup lookup and has not committed
Midway(call) == call.pc = "loop" /\ call.i > 1

\* C23.  StoreImage and DeleteImage are serialized per store instance:
\* when several callers invoke them concurrently, no dedup lookup, tile
\* staging or commit step of a StoreImage call, and no DeleteImage call,
\* runs while another caller's StoreImage call is between its first dedup
\* lookup and its commit.
C23_WritersSerialized ==
    [][last'.op \in {"tile", "commit", "delete"}
           => \A w \in Writers \ {last'.out.by} : ~Midway(last.out.calls[w])]_vars

\* tileID is a key of the deltas collection of the Bolt buckets b
DeltaStoredIn(b, tileID) == store = "bolt" /\ tileID \in DOMAIN b.deltas

\* The store does not hold the tile before the call
NewTile(tileID) == ~TileStoredIn(pebble, bolt, tileID) /\ ~DeltaStoredIn(bolt, tileID)

\* refs[k] is the first occurrence of its tile in the image
FirstOccurrence(refs, k) == \A j \in 1..(k - 1) : refs[j].TileID # refs[k].TileID

\* The tiles of the image are pairwise distinct and new to the store
DistinctAndNew(refs) ==
    \A k \in DOMAIN refs : NewTile(refs[k].TileID) /\ FirstOccurrence(refs, k)

\* C24 as stated.  Within one StoreImage call the first occurrence, in
\* row-major order, of a tile the store does not hold is tagged Unique and
\* is a key of tiles afterwards, and every later occurrence of it in the
\* image is tagged Duplicate; an image whose tiles are pairwise distinct
\* and new yields all-Unique refs and raises UniqueTiles by its tile
\* count.
C24_FirstOccurrenceUnique ==
    [][(last'.op = "store" /\ last'.err = "")
           => \E refs \in {ManifestOf(pebble', bolt', last'.id).TileRefs} :
                  /\ \A k \in DOMAIN refs :
                         NewTile(refs[k].TileID) =>
                             IF FirstOccurrence(refs, k)
                             THEN /\ refs[k].StorageType = StorageUnique
                                  /\ TileStoredIn(pebble', bolt', refs[k].TileID)
                             ELSE refs[k].StorageType = StorageDuplicate
                  /\ DistinctAndNew(refs) =>
                         /\ \A k \in DOMAIN refs : refs[k].StorageType = StorageUnique
                         /\ UniqueTiles' = UniqueTiles + Len(refs)]_vars

\* C24, amended.  Within one StoreImage call the first occurrence of a
\* tile the store does not hold is written once: it is tagged Unique and
\* is a key of tiles afterwards or, on a BoltImageStore with
\* EnableDeltaTiles = true only, it is tagged Delta and is a key of deltas
\* and not of tiles; every later occurrence of it in the image is tagged
\* Duplicate.  An image whose tiles are pairwise distinct and new raises
\* UniqueTiles by the number of its refs tagged Unique, which is its tile
\* count when delta storage is off.
C24_FirstOccurrenceStoredOnce ==
    [][(last'.op = "store" /\ last'.err = "")
           => \E refs \in {ManifestOf(pebble', bolt', last'.id).TileRefs} :
                  /\ \A k \in DOMAIN refs :
                         NewTile(refs[k].TileID) =>
                             IF FirstOccurrence(refs, k)
                             THEN \/ /\ refs[k].StorageType = StorageUnique
                                     /\ TileStoredIn(pebble', bolt', refs[k].TileID)
                                     /\ ~DeltaStoredIn(bolt', refs[k].TileID)
                                  \/ /\ store = "bolt" /\ enableDelta
                                     /\ refs[k].StorageType = StorageDelta
                                     /\ DeltaStoredIn(bolt', refs[k].TileID)
                                     /\ ~TileStoredIn(pebble', bolt', refs[k].TileID)
                             ELSE refs[k].StorageType = StorageDuplicate
                  /\ DistinctAndNew(refs) =>
                         /\ UniqueTiles' = UniqueTiles +
                                Cardinality({k \in DOMAIN refs :
                                                refs[k].StorageType = StorageUnique})
                         /\ ~enableDelta =>
                                \A k \in DOMAIN refs : refs[k].StorageType = StorageUnique]_vars

\* Two manifests of a BoltImageStore with delta storage: the one of the
\* image with two equal tiles tags the first Unique and the second
\* Duplicate; the one of an image whose tile differs from that tile in one
\* sample tags it Delta.
C24_Witness ==
    /\ store = "bolt"
    /\ enableDelta
    /\ Returned(last, "store", "")
    /\ \E id \in ImageIDs :
           /\ HasManifest(id)
           /\ stored[id] = RasterD
           /\ Manifest(id).TileRefs[1].StorageType = StorageUnique
           /\ Manifest(id).TileRefs[2].StorageType = StorageDuplicate
           /\ Manifest(id).TileRefs[1].TileID = Manifest(id).TileRefs[2].TileID
    /\ \E id \in ImageIDs :
           /\ HasManifest(id)
           /\ stored[id] \in {RasterB, RasterC}
           /\ Manifest(id).TileRefs[1].StorageType = StorageDelta

\* The number of entries of the similarity index f that carry tileID
IndexCount(f, tileID) == Cardinality({j \in 1..Len(f) : f[j].TileID = tileID})

\* C25.  A tile elected for delta storage is written only to the deltas
\* collection, under its own tile ID, and tagged Delta: the call writes no
\* tiles entry and no features entry for it and adds nothing to the
\* similarity index for it.  In every reachable state the key sets of
\* tiles and deltas are disjoint.
C25_DeltaOnlyInDeltas ==
    [][/\ (DOMAIN bolt'.tiles) \cap (DOMAIN bolt'.deltas) = {}
       /\ \A t \in (DOMAIN bolt'.deltas) \ (DOMAIN bolt.deltas) :
              /\ last'.op = "store" /\ last'.err = ""
              /\ t \notin DOMAIN bolt'.tiles
              /\ t \notin DOMAIN bolt'.features
              /\ IndexCount(features', t) = IndexCount(features, t)
              /\ \E refs \in {ManifestOf(pebble', bolt', last'.id).TileRefs} :
                     /\ \E k \in DOMAIN refs : refs[k].TileID = t
                     /\ \A k \in DOMAIN refs :
                            (refs[k].TileID = t /\ FirstOccurrence(refs, k)) =>
                                refs[k].IsDelta /\ refs[k].StorageType = StorageDelta]_vars

\* A StoreImage call has just written a delta: its key is the ID of a
\* tile of the stored image, tagged Delta, and neither tiles, features nor
\* the index hold that ID.
C25_Witness ==
    /\ store = "bolt"
    /\ Returned(last, "store", "")
    /\ \E k \in DOMAIN Manifest(last.id).TileRefs :
           \E t \in {Manifest(last.id).TileRefs[k].TileID} :
               /\ Manifest(last.id).TileRefs[k].IsDelta
               /\ t \in DOMAIN bolt.deltas
               /\ t \notin DOMAIN bolt.tiles
               /\ t \notin DOMAIN bolt.features
               /\ IndexCount(features, t) = 0
               /\ DOMAIN bolt.tiles # {}

\* C26.  Delta election rule: with a verified base candidate StoreImage
\* elects delta storage if and only if len(delta) < 0.75 * len(rawTile);
\* the integer test of the code, len(deltaData) < len(tile.Data)*3/4,
\* agrees with that inequality over the reals (4 * len(delta) <
\* 3 * len(rawTile)) for every tile size and every delta length.
C26_ElectionRule ==
    last.op = "deltaIsSmaller" =>
        (last.out.out <=>
             4 * last.out.in.deltaLen < 3 * (last.out.in.tileSize * last.out.in.tileSize * 3))

\* The BaseID of the persisted delta of tileID
BaseOf(b, tileID) == UnmarshalJSON(b.deltas[tileID]).BaseID

\* C27.  Deltas are created only against Unique tiles: in every state
\* reachable by StoreImage calls, failed calls and retries included, the
\* BaseID of every persisted delta is a key of the tiles collection and
\* not a key of deltas, so every delta chain has depth 1.
C27_DeltaBasesAreTiles ==
    \A t \in DOMAIN bolt.deltas :
        BaseOf(bolt, t) \in DOMAIN bolt.tiles /\ BaseOf(bolt, t) \notin DOMAIN bolt.deltas

\* Every tile ID of the input rasters and every key of tiles and deltas
KnownTileIDs ==
    UNION {{ExtractedTiles[r].tiles[k].ID : k \in DOMAIN ExtractedTiles[r].tiles} :
              r \in Rasters}
        \cup (DOMAIN bolt.tiles) \cup (DOMAIN bolt.deltas)

\* C28.  Recursive tile resolution terminates: in every state reachable by
\* StoreImage and DeleteImage calls the delta-to-base relation of the
\* deltas collection is acyclic (the BaseID chain of every delta reaches a
\* key of tiles within as many steps as there are deltas), so
\* getTileDataFromTx(id) finishes for every tile ID: with the decompressed
\* tiles entry when there is one, with bytes through deltas only on a miss
\* in tiles, and with an error when the ID is in neither collection.
C28_ResolutionTerminates ==
    /\ \A t \in DOMAIN bolt.deltas :
           ChainEndsInTiles(bolt, t, Cardinality(DOMAIN bolt.deltas))
    /\ \A t \in KnownTileIDs :
           \E res \in {getTileDataFromTx(bolt, t)} :
               IF t \in DOMAIN bolt.tiles
               THEN res = BoltDecompressTileData(bolt.tiles[t])
               ELSE IF t \in DOMAIN bolt.deltas
               THEN ~res.err /\ ByteLen(res.data) = TileSize * TileSize * 3
               ELSE res.err

\* A delta whose base is itself a delta (a chain of depth 2) is persisted
\* after a DeleteImage or StoreImage call, and resolves.
C28_Witness ==
    /\ store = "bolt"
    /\ \E t \in DOMAIN bolt.deltas :
           /\ BaseOf(bolt, t) \in DOMAIN bolt.deltas
           /\ BaseOf(bolt, BaseOf(bolt, t)) \in DOMAIN bolt.tiles
           /\ ~getTileDataFromTx(bolt, t).err

\* C29.  The similarity index reflects only durable tiles: after every
\* completed StoreImage call, successful or failed, every tile ID held in
\* the in-memory SimilarityMatcher is a key of the persisted tiles
\* collection.
C29_IndexOnlyDurableTiles ==
    \A j \in 1..Len(features) : features[j].TileID \in DOMAIN bolt.tiles

\* ------------------------------------------------------------------------
\* Close and a fresh NewBoltImageStore on the same database
\* ------------------------------------------------------------------------

ReopenInputs == {EncodedPNG(r) : r \in ReopenRasters}

\* The index holds the tiles of one row raster and of one query raster
MaxReopenIndex == RowTiles + 1

ReopenInit ==
    /\ store = "bolt"
    /\ enableDelta \in BOOLEAN
    /\ pebble = EmptyMap
    /\ bolt = EmptyBolt
    /\ features = loadFeatures(EmptyBolt)
    /\ last = Call("open", <<>>, "", [before |-> <<>>])
    /\ stored = EmptyMap
    /\ succeeded = {}
    /\ deleted = {}
    /\ nops = 0

\* BoltImageStore.StoreImage with every Put and the commit succeeding
ReopenStoreImage(id, imageData, gz) ==
    /\ nops < MaxOps
    /\ \E res \in {BoltStoreImageResult(bolt, features, id, imageData, enableDelta,
                                          NoFault, gz)} :
           /\ Len(res.features) <= MaxReopenIndex
           /\ bolt' = res.db
           /\ features' = res.features
           /\ last' = Call("store", id, res.err, <<>>)
           /\ StoreHistory(id, imageData, res.err)
    /\ nops' = nops + 1
    /\ UNCHANGED <<store, enableDelta, pebble>>

\* Close, then NewBoltImageStore on the same file: the database is what
\* was committed, the matcher is new and loadFeatures fills it.  The call
\* records the index the closed store held.
Reopen ==
    /\ nops < MaxOps
    /\ features' = loadFeatures(bolt)
    /\ last' = Call("open", <<>>, "", [before |-> features])
    /\ nops' = nops + 1
    /\ UNCHANGED <<store, enableDelta, pebble, bolt, stored, succeeded, deleted>>

ReopenNext ==
    \/ \E id \in ImageIDs, imageData \in ReopenInputs, gz \in GzipLens :
           ReopenStoreImage(id, imageData, gz)
    \/ Reopen

ReopenSpec == ReopenInit /\ [][ReopenNext]_vars

IndexIDs(index) == {index[j].TileID : j \in 1..Len(index)}

\* The storage types StoreImage gives the tiles of imageData when the
\* matcher holds index
Decisions(index, imageData, gz) ==
    LET res == BoltStoreImageResult(bolt, index, <<97>>, imageData, enableDelta, NoFault, gz)
        refs == UnmarshalImage(res.db.images[<<97>>]).TileRefs
    IN  IF res.err # "" THEN <<>>
        ELSE [k \in 1..Len(refs) |-> refs[k].StorageType]

\* C30: after Close and a fresh NewBoltImageStore the tile IDs of the
\* index are the keys of the features bucket and the IDs the index held
\* before Close (every earlier StoreImage having succeeded), and a
\* following StoreImage gives its tiles the storage types it would have
\* given them without the restart.
C30_IndexRebuild ==
    (last.op = "open" /\ nops > 0) =>
        /\ IndexIDs(features) = DOMAIN bolt.features
        /\ IndexIDs(features) = IndexIDs(last.out.before)
        /\ \A k \in 0..(RowTiles - 1), gz \in GzipLens :
               Decisions(features, EncodedPNG(QueryRaster(k)), gz)
                   = Decisions(last.out.before, EncodedPNG(QueryRaster(k)), gz)

\* The place of the entry of index with the tile ID of a candidate
IndexPlace(index, tileID) == CHOOSE j \in 1..Len(index) : index[j].TileID = tileID

\* The feature distance from the tile to entry j of index
QueryDistance(index, tile, j) ==
    ComputeFeatureDistance(ExtractTileFeatures(<<>>, tile, TileSize).features, index[j])

\* C31: on a non-empty index FindTopSimilarTiles returns exactly
\* min(N, size) candidates, entries of the index with their distances, in
\* non-decreasing order of distance; every omitted entry is at least as
\* far as the last returned one; entries of equal distance keep their
\* insertion order, among the returned ones and against the omitted ones.
\* On an empty index it returns an error.
C31_TopNStable ==
    last.op = "FindTopSimilarTiles" =>
        LET index == last.out.in.index
            tile == last.out.in.tile
            out == last.out.out
            returned == {out[k].tileID : k \in 1..Len(out)}
        IN  IF Len(index) = 0 THEN last.err # ""
            ELSE /\ last.err = ""
                 /\ Len(out) = min(last.out.in.topN, Len(index))
                 /\ Cardinality(returned) = Len(out)
                 /\ \A k \in 1..Len(out) :
                        /\ \E j \in 1..Len(index) : index[j].TileID = out[k].tileID
                        /\ out[k].distance
                               = QueryDistance(index, tile, IndexPlace(index, out[k].tileID))
                 /\ \A k \in 1..(Len(out) - 1) : out[k].distance <= out[k + 1].distance
                 /\ \A k \in 1..(Len(out) - 1) :
                        out[k].distance = out[k + 1].distance =>
                            IndexPlace(index, out[k].tileID)
                                < IndexPlace(index, out[k + 1].tileID)
                 /\ \A j \in 1..Len(index) :
                        (index[j].TileID \notin returned /\ Len(out) > 0) =>
                            /\ QueryDistance(index, tile, j) >= out[Len(out)].distance
                            /\ QueryDistance(index, tile, j) = out[Len(out)].distance =>
                                   j > IndexPlace(index, out[Len(out)].tileID)

\* The candidates BestMatchWithPixelCheck examines for a call: those of the
\* TopCandidates nearest that come before the first one beyond the feature
\* threshold, whose tile is fetched and whose pixel distance is computed
MatchPixelDistance(in, c) ==
    ComputePerceptualDistance(in.tile, in.getTileData[c.tileID].data, TileSize)
MatchSkipped(in, c) ==
    in.getTileData[c.tileID].err \/ MatchPixelDistance(in, c).err
MatchReached(in, top, k) ==
    \A j \in 1..k : ~FeatureBeyond(top[j].distance, in.featureThreshold)
MatchExamined(in, top) ==
    {k \in 1..Len(top) : MatchReached(in, top, k) /\ ~MatchSkipped(in, top[k])}
MatchNearest(in, top) ==
    {k \in MatchExamined(in, top) :
        \A o \in MatchExamined(in, top) :
            MatchPixelDistance(in, top[k]).distance <= MatchPixelDistance(in, top[o]).distance}

\* C32: BestMatchWithPixelCheck looks at no more than the 5 nearest
\* candidates in feature-distance order, stops at the first one beyond the
\* feature threshold, skips a candidate whose fetch or pixel distance
\* fails, and returns a tile ID exactly when the least pixel distance
\* among the examined candidates is within the pixel threshold, the ID
\* being that of a candidate at that least distance; otherwise no ID.
C32_PixelCheckedBestMatch ==
    last.op = "BestMatchWithPixelCheck" =>
        LET in == last.out.in
            out == last.out.out
            found == FindTopSimilarTiles(in.index, in.tile, TileSize, Len(in.index))
            top == SubSeq(found.candidates, 1, min(5, Len(in.index)))
        IN  IF Len(in.index) = 0 THEN last.err # ""
            ELSE /\ last.err = ""
                 /\ out.found <=>
                        \E k \in MatchNearest(in, top) :
                            PixelWithin(MatchPixelDistance(in, top[k]).distance,
                                        in.pixelThreshold, TileSize)
                 /\ out.found =>
                        \E k \in MatchNearest(in, top) : out.tileID = top[k].tileID

\* A call that returned a tile ID after skipping a nearer candidate whose
\* fetch or pixel distance failed and stopping at one beyond the threshold
C32_Witness ==
    /\ last.op = "BestMatchWithPixelCheck"
    /\ last.err = ""
    /\ last.out.out.found
    /\ LET in == last.out.in
           top == FindTopSimilarTiles(in.index, in.tile, TileSize, 5).candidates
       IN  /\ \E k \in 1..Len(top) : MatchReached(in, top, k) /\ MatchSkipped(in, top[k])
           /\ \E k \in 1..Len(top) : ~MatchReached(in, top, k)
           /\ Cardinality(MatchExamined(in, top)) > 1

\* ------------------------------------------------------------------------
\* A store whose database lost entries
\* ------------------------------------------------------------------------

\* The database loses one entry of tiles or deltas outside the program (a
\* damaged file, a key removed by hand); the manifests stay.
LoseTile ==
    /\ nops < MaxOps
    /\ \/ /\ store = "pebble"
          /\ \E key \in DOMAIN pebble :
                 /\ SubSeq(key, 1, Len(tilesBucket)) = tilesBucket
                 /\ pebble' = Del(pebble, key)
          /\ UNCHANGED bolt
       \/ /\ store = "bolt"
          /\ \/ \E tileID \in DOMAIN bolt.tiles :
                    bolt' = [bolt EXCEPT !.tiles = Del(@, tileID)]
             \/ \E tileID \in DOMAIN bolt.deltas :
                    bolt' = [bolt EXCEPT !.deltas = Del(@, tileID)]
          /\ UNCHANGED pebble
    /\ last' = Call("damage", <<>>, "", <<>>)
    /\ nops' = nops + 1
    /\ UNCHANGED <<store, enableDelta, features, stored, succeeded, deleted>>

CorruptNext ==
    \/ \E id \in ImageIDs, imageData \in ImageInputs :
           PebbleStoreImage(id, imageData, NoFault)
    \/ \E id \in ImageIDs, imageData \in ImageInputs, gz \in GzipLens :
           BoltStoreImage(id, imageData, NoFault, gz)
    \/ LoseTile
    \/ \E id \in ImageIDs : PebbleRetrieveImage(id)
    \/ \E id \in ImageIDs : BoltRetrieveImage(id)

CorruptSpec == Init /\ [][CorruptNext]_vars

\* The manifest of id references a tile that does not resolve
Unresolved(id) ==
    /\ HasManifest(id)
    /\ \E k \in DOMAIN Manifest(id).TileRefs : ~Resolves(Manifest(id).TileRefs[k].TileID)

\* C33: when the manifest of id references a tile ID that resolves in
\* neither tiles nor deltas, or a delta whose base does not resolve,
\* RetrieveImage(id) returns an error and no image bytes, and leaves the
\* database and the index as they were.
C33_UnresolvedTileFails ==
    [][(last'.op = "retrieve" /\ Unresolved(last'.id)) =>
           /\ last'.err # ""
           /\ last'.out = <<>>
           /\ pebble' = pebble
           /\ bolt' = bolt
           /\ features' = features]_vars

\* RetrieveImage has failed on a manifest whose tile is a delta that is
\* present while its base is gone
C33_Witness ==
    /\ store = "bolt"
    /\ last.op = "retrieve"
    /\ last.err = "failed to reconstruct image"
    /\ Unresolved(last.id)
    /\ \E k \in DOMAIN Manifest(last.id).TileRefs :
           /\ Manifest(last.id).TileRefs[k].TileID \in DOMAIN bolt.deltas
           /\ BaseOf(bolt, Manifest(last.id).TileRefs[k].TileID) \notin DOMAIN bolt.tiles

\* C34: placeTileData, PebbleImageStore.compressTileData, ComputeDelta and
\* ApplyDelta return an error whenever a tile or the decoded delta is not
\* T*T*3 bytes long or the two tiles of ComputeDelta differ in length, and
\* then produce nothing (placeTileData leaves every pixel of the image as
\* it was); ApplyDelta also fails when the decompressed delta is not as
\* long as its length header says.
C34_SizeValidation ==
    last.op = "SizeChecked" =>
        LET in == last.out.in
            expected == in.tileSize * in.tileSize * 3
            invalid ==
                CASE in.fn = "placeTileData" -> ByteLen(in.tile) # expected
                  [] in.fn = "compressTileData" -> ByteLen(in.tile) # expected
                  [] in.fn = "ComputeDelta" ->
                       \/ ByteLen(in.tile) # expected
                       \/ ByteLen(in.other) # expected
                       \/ ByteLen(in.tile) # ByteLen(in.other)
                  [] in.fn = "ApplyDelta" ->
                       \/ ByteLen(in.tile) # expected
                       \/ ByteLen(in.other) # expected
                       \/ ByteLen(in.other) # in.header
        IN  invalid =>
                /\ last.err # ""
                /\ last.out.out = IF in.fn = "placeTileData" THEN GradientRaster(3, 3, 11)
                                  ELSE <<>>

\* ApplyDelta has failed on a base tile and a delta of the right length
\* whose header records another length
C34_Witness ==
    /\ last.op = "SizeChecked"
    /\ last.out.in.fn = "ApplyDelta"
    /\ last.err # ""
    /\ ByteLen(last.out.in.tile) = last.out.in.tileSize * last.out.in.tileSize * 3
    /\ ByteLen(last.out.in.other) = ByteLen(last.out.in.tile)
    /\ last.out.in.header # ByteLen(last.out.in.other)

\* C35: on a BoltImageStore every pass of the tile loop of StoreImage, the
\* only code that reads (Size, the best-match scan) or writes (AddTile)
\* SimilarityMatcher.features, runs while no other StoreImage call is
\* inside its db.Update function, however the calls interleave.
C35_IndexAccessExclusive ==
    [][(store = "bolt" /\ last'.op = "tile")
           => \A w \in Writers \ {last'.out.by} : last.out.calls[w].pc = "idle"]_vars

\* A StoreImage call of the second caller has added a tile to the index
\* that already held a tile another call added
C35_Witness ==
    /\ store = "bolt"
    /\ last.op = "tile"
    /\ last.out.by = 2
    /\ Len(features) > 1
    /\ succeeded # {}

\* Pixel p of a raster of the given width lies in the tileSize x tileSize
\* window at (offsetX, offsetY)
InWindow(p, width, offsetX, offsetY, tileSize) ==
    /\ (p % width) >= offsetX /\ (p % width) < offsetX + tileSize
    /\ (p \div width) >= offsetY /\ (p \div width) < offsetY + tileSize

\* The pixel of tile that belongs at pixel p of the raster
WindowPixel(tile, p, width, offsetX, offsetY, tileSize) ==
    LET i == (((p \div width) - offsetY) * tileSize + ((p % width) - offsetX)) * 3
    IN  Pixel(tile[i], tile[i + 1], tile[i + 2])

\* after is before with tile written into the window at (offsetX, offsetY)
\* and nothing else changed
PlacedInto(before, after, tile, offsetX, offsetY, tileSize) ==
    /\ after.Width = before.Width
    /\ after.Height = before.Height
    /\ DOMAIN after.Pix = DOMAIN before.Pix
    /\ \A p \in DOMAIN before.Pix :
           after.Pix[p] = IF InWindow(p, before.Width, offsetX, offsetY, tileSize)
                          THEN WindowPixel(tile, p, before.Width, offsetX, offsetY, tileSize)
                          ELSE before.Pix[p]

\* C36: placeTileData writes the pixels of the window
\* [offsetX, offsetX+T) x [offsetY, offsetY+T) that lie in the image and
\* leaves every other pixel as it was; a tile placed afterwards at another
\* grid position leaves the pixels of the first tile as the first call
\* wrote them.
C36_PlaceWindowOnly ==
    /\ last.op = "placeTileData" =>
           /\ last.err = ""
           /\ PlacedInto(last.out.in.img, last.out.out, last.out.in.tile,
                         last.out.in.offsetX, last.out.in.offsetY, last.out.in.tileSize)
    /\ last.op = "placeTileDataNext" =>
           \E in \in {last.out.in} :
               /\ last.err = ""
               /\ PlacedInto(last.out.out.first, last.out.out.second, in.next,
                             in.offsetX + in.stepX * in.tileSize,
                             in.offsetY + in.stepY * in.tileSize, in.tileSize)
               /\ \A p \in DOMAIN in.img.Pix :
                      InWindow(p, in.img.Width, in.offsetX, in.offsetY, in.tileSize) =>
                          last.out.out.second.Pix[p]
                              = WindowPixel(in.tile, p, in.img.Width, in.offsetX,
                                            in.offsetY, in.tileSize)

\* Two tiles have been placed side by side, the second cut by the right
\* edge of the image, with pixels of the image left outside both windows
C36_Witness ==
    /\ last.op = "placeTileDataNext"
    /\ last.err = ""
    /\ \E in \in {last.out.in} :
           /\ in.stepX = 1
           /\ in.offsetX + in.tileSize < in.img.Width
           /\ in.offsetX + 2 * in.tileSize > in.img.Width
           /\ in.offsetX > 0
           /\ last.out.out.second.Pix[0] = in.img.Pix[0]
           /\ last.out.out.second.Pix[in.offsetY * in.img.Width + in.offsetX]
                  # in.img.Pix[in.offsetY * in.img.Width + in.offsetX]

\* The TileRefs tagged Unique in the current manifests, as <<id, k>>
UniqueTagged ==
    {ref \in UNION {{<<id, k>> : k \in DOMAIN Manifest(id).TileRefs} :
                       id \in {i \in ImageIDs : HasManifest(i)}} :
        Manifest(ref[1]).TileRefs[ref[2]].StorageType = StorageUnique}

\* C37: after any serial sequence of StoreImage and DeleteImage calls,
\* failed stores and re-stores under an existing id included, the TileRefs
\* tagged Unique in the current manifests are no more than the keys of
\* tiles and no two of them name the same tile ID; the DirectTiles that
\* GetStorageStats reports is at most its UniqueTiles.
C37_UniqueTaggedOnce ==
    /\ Cardinality(UniqueTagged) <= UniqueTiles
    /\ \A a \in UniqueTagged, b \in UniqueTagged :
           a # b => Manifest(a[1]).TileRefs[a[2]].TileID # Manifest(b[1]).TileRefs[b[2]].TileID
    /\ last.op = "stats" => last.out.DirectTiles <= last.out.UniqueTiles

\* After three calls two manifests reference the same tile, one tagging it
\* Unique and the other Duplicate
C37_Witness ==
    /\ last.op = "store"
    /\ last.err = ""
    /\ Cardinality(UniqueTagged) = 1
    /\ \E a \in UniqueTagged : \E id \in ImageIDs \ {a[1]} :
           /\ HasManifest(id)
           /\ \E k \in DOMAIN Manifest(id).TileRefs :
                  /\ Manifest(id).TileRefs[k].TileID = Manifest(a[1]).TileRefs[a[2]].TileID
                  /\ Manifest(id).TileRefs[k].StorageType = StorageDuplicate
    /\ Cardinality(succeeded) = 1
    /\ nops = MaxOps

\* What a caller sees after a step that stored id over an existing
\* manifest: RetrieveImage(id) yields the raster just stored
RetrievesStoredAfter(id) ==
    \E res \in {RetrieveImageOf(pebble', bolt', id)} :
        /\ res.err = ""
        /\ \E decoded \in {decodeImageFromBytes(res.data)} :
               ~decoded.err /\ decoded.img = stored'[id]

\* ListImages() after the step holds id exactly once
ListedOnceAfter(id) ==
    \E list \in {IF store = "pebble" THEN PebbleListImagesResult(pebble')
                  ELSE BoltListImagesResult(bolt')} :
        Cardinality({i \in DOMAIN list : list[i] = id}) = 1

\* GetStorageStats().TotalImages is the same before and after the step
TotalImagesKept ==
    IF store = "pebble"
    THEN PebbleGetStorageStatsResult(pebble').TotalImages
             = PebbleGetStorageStatsResult(pebble).TotalImages
    ELSE BoltGetStorageStatsResult(bolt').TotalImages
             = BoltGetStorageStatsResult(bolt).TotalImages

\* The step is a successful StoreImage under an id that had a manifest
Restored == last'.op = "store" /\ last'.err = "" /\ HasManifest(last'.id)

\* C38: when StoreImage(id, R2) succeeds under an id that already has a
\* manifest, RetrieveImage(id) yields R2, ListImages holds id exactly once,
\* TotalImages is what it was before the call, and every tile and delta
\* stored before is still there.
C38_RestoreReplacesManifest ==
    [][Restored =>
           /\ RetrievesStoredAfter(last'.id)
           /\ ListedOnceAfter(last'.id)
           /\ TotalImagesKept
           /\ TilesAndDeltasKept]_vars

\* The same without the two cases other defects decide: the raster read
\* back from a store with delta tiles, and the listing of a PebbleImageStore
\* id that starts with byte 255
C38_RestoreReplacesManifestElsewhere ==
    [][Restored =>
           /\ (store = "pebble" \/ ~enableDelta) => RetrievesStoredAfter(last'.id)
           /\ (store = "bolt" \/ last'.id[1] # 255) => ListedOnceAfter(last'.id)
           /\ TotalImagesKept
           /\ TilesAndDeltasKept]_vars

\* C39: no two entries of SimilarityMatcher.features have the same TileID,
\* after any sequence of StoreImage calls on a BoltImageStore, also when a
\* StoreImage failed after AddTile and was retried.
C39_IndexIDsOnce ==
    \A i \in 1..Len(features), j \in 1..Len(features) :
        i # j => features[i].TileID # features[j].TileID

\* ------------------------------------------------------------------------
\* HTTP handlers (internal/handlers/http.go) over the error texts of the
\* stores
\* ------------------------------------------------------------------------

\* An error text is the sequence of the words of its fmt.Errorf format, a
\* %w cause following its prefix; "%s" stands for an identifier and the
\* empty sequence for a nil error.
ImageNotFound == <<"image", "not", "found", ":", "%s">>

TileNotFound == <<"tile", "not", "found", ":", "%s">>

\* strings.Contains on word sequences
Contains(s, substr) ==
    \E i \in 1..(Len(s) - Len(substr) + 1) : SubSeq(s, i, i + Len(substr) - 1) = substr

\* The error of PebbleImageStore.getTileData
PebbleGetTileDataError(db, tileID) ==
    LET tileKey == makeKey(tilesBucket, tileID)
    IN  IF tileKey \in DOMAIN db
        THEN IF PebbleDecompressTileData(db[tileKey], TileSize).err
             THEN <<"failed", "to", "decompress", "tile", "%s", ":", "invalid", "tile">>
             ELSE <<>>
        ELSE TileNotFound

RECURSIVE getTileDataFromTxError(_, _)
\* The error of BoltImageStore.getTileDataFromTx
getTileDataFromTxError(tx, tileID) ==
    IF tileID \in DOMAIN tx.tiles
    THEN <<>>
    ELSE IF tileID \in DOMAIN tx.deltas
    THEN LET tileDelta == UnmarshalJSON(tx.deltas[tileID])
             baseError == getTileDataFromTxError(tx, tileDelta.BaseID)
         IN  IF baseError # <<>>
             THEN <<"failed", "to", "get", "base", "tile", "%s", ":">> \o baseError
             ELSE IF getTileDataFromTx(tx, tileID).err  \* one of ApplyDelta's errors
             THEN <<"invalid", "delta">>
             ELSE <<>>
    ELSE TileNotFound

RECURSIVE ReconstructImageError(_, _, _, _, _)
\* The error of ReconstructImage from ref k on: getTile[k] and
\* getTileError[k] are what getTileData returned for the k-th ref.
ReconstructImageError(storedImage, tileSize, getTile, getTileError, k) ==
    IF k > Len(storedImage.TileRefs) THEN <<>>
    ELSE IF getTileError[k] # <<>>
    THEN <<"failed", "to", "get", "tile", "data", "for", "%s", ":">> \o getTileError[k]
    ELSE IF Cardinality(DOMAIN getTile[k].data) # tileSize * tileSize * 3
    THEN <<"failed", "to", "place", "tile", ":", "invalid", "tile", "data", "size">>
    ELSE ReconstructImageError(storedImage, tileSize, getTile, getTileError, k + 1)

\* The error of PebbleImageStore.RetrieveImage; getErr: db.Get of the
\* manifest key fails with an error other than pebble.ErrNotFound.
PebbleRetrieveImageError(db, id, getErr) ==
    LET imageKey == makeKey(imagesBucket, id)
    IN  IF getErr \/ imageKey \notin DOMAIN db THEN ImageNotFound
        ELSE
        LET storedImage == UnmarshalImage(db[imageKey])
            getTile == [k \in 1..Len(storedImage.TileRefs) |->
                           PebbleGetTileData(db, storedImage.TileRefs[k].TileID)]
            getTileError == [k \in 1..Len(storedImage.TileRefs) |->
                                PebbleGetTileDataError(db, storedImage.TileRefs[k].TileID)]
            rec == ReconstructImageError(storedImage, TileSize, getTile, getTileError, 1)
        IN  IF rec # <<>>
            THEN <<"failed", "to", "reconstruct", "image", ":">> \o rec
            ELSE <<>>

\* The error of BoltImageStore.RetrieveImage
BoltRetrieveImageError(db, id) ==
    IF id \notin DOMAIN db.images THEN ImageNotFound
    ELSE
    LET storedImage == UnmarshalImage(db.images[id])
        getTile == [k \in 1..Len(storedImage.TileRefs) |->
                       getTileDataFromTx(db, storedImage.TileRefs[k].TileID)]
        getTileError == [k \in 1..Len(storedImage.TileRefs) |->
                            getTileDataFromTxError(db, storedImage.TileRefs[k].TileID)]
        rec == ReconstructImageError(storedImage, TileSize, getTile, getTileError, 1)
    IN  IF rec # <<>>
        THEN <<"failed", "to", "reconstruct", "image", ":">> \o rec
        ELSE <<>>

\* The error of PebbleImageStore.DeleteImage and BoltImageStore.DeleteImage
DeleteImageError(id, getErr) ==
    IF store = "pebble"
    THEN IF getErr \/ makeKey(imagesBucket, id) \notin DOMAIN pebble
         THEN ImageNotFound ELSE <<>>
    ELSE IF id \notin DOMAIN bolt.images THEN ImageNotFound ELSE <<>>

StatusOK == 200

StatusNotFound == 404

StatusInternalServerError == 500

\* The status the handlers answer for the error err of the store call
StatusFor(err) ==
    IF err = <<>> THEN StatusOK
    ELSE IF Contains(err, <<"not", "found">>) THEN StatusNotFound
    ELSE StatusInternalServerError

\* db.Get of PebbleImageStore can fail on a key that is present; bbolt's
\* Bucket.Get returns no error.
GetErrs == IF store = "pebble" THEN BOOLEAN ELSE {FALSE}

\* ImageHandler.retrieveImage: GET /images/{id}
retrieveImage(imageID, getErr) ==
    /\ nops < MaxOps
    /\ \E err \in {IF store = "pebble"
                   THEN PebbleRetrieveImageError(pebble, imageID, getErr)
                   ELSE BoltRetrieveImageError(bolt, imageID)} :
           last' = [op |-> "GET", id |-> imageID, getErr |-> getErr, err |-> err,
                    status |-> StatusFor(err),
                    out |-> IF err # <<>> THEN <<>>
                            ELSE IF store = "pebble"
                            THEN PebbleRetrieveImageResult(pebble, imageID).data
                            ELSE BoltRetrieveImageResult(bolt, imageID).data]
    /\ nops' = nops + 1
    /\ UNCHANGED <<store, enableDelta, pebble, bolt, features, stored, succeeded, deleted>>

\* ImageHandler.deleteImage: DELETE /images/{id}
deleteImage(imageID, getErr) ==
    /\ nops < MaxOps
    /\ \E err \in {DeleteImageError(imageID, getErr)} :
           /\ last' = [op |-> "DELETE", id |-> imageID, getErr |-> getErr, err |-> err,
                       status |-> StatusFor(err), out |-> <<>>]
           /\ pebble' = IF store = "pebble" /\ err = <<>>
                        THEN PebbleDeleteImageResult(pebble, imageID).db ELSE pebble
           /\ bolt' = IF store = "bolt" /\ err = <<>>
                      THEN BoltDeleteImageResult(bolt, imageID).db ELSE bolt
           /\ DeleteHistory(imageID, IF err = <<>> THEN "" ELSE "error")
    /\ nops' = nops + 1
    /\ UNCHANGED <<store, enableDelta, features>>

\* The handlers next to StoreImage of both stores and to the loss of a tile
HandlerNext ==
    \/ \E id \in ImageIDs, imageData \in ImageInputs :
           PebbleStoreImage(id, imageData, NoFault)
    \/ \E id \in ImageIDs, imageData \in ImageInputs, gz \in GzipLens :
           BoltStoreImage(id, imageData, NoFault, gz)
    \/ LoseTile
    \/ \E id \in ImageIDs, getErr \in GetErrs : retrieveImage(id, getErr)
    \/ \E id \in ImageIDs, getErr \in GetErrs : deleteImage(id, getErr)

HandlerSpec == Init /\ [][HandlerNext]_vars

\* C40: GET /images/{id} and DELETE /images/{id} are answered with 404
\* exactly when the manifest of id is missing, and a GET that fails on a
\* manifest that is present is answered with 500.
C40_NotFoundOnlyForMissingManifest ==
    [][last'.op \in {"GET", "DELETE"} =>
           /\ (last'.status = StatusNotFound) <=> ~HasManifest(last'.id)
           /\ (last'.op = "GET" /\ HasManifest(last'.id) /\ last'.err # <<>>) =>
                  last'.status = StatusInternalServerError]_vars
====
